---- MODULE Spec2Model ----
(***************************************************************************)
(* Synchronization engine of brigade-heatmap: the periodic scheduler      *)
(* (docker/scheduler.py, docker/alarm_scheduler.py), the Device and Alarm  *)
(* sync services (heatmap/device_sync_service.py,                          *)
(* docker/alarm_sync_service.py), the API client's auth session            *)
(* (docker/api_client.py) and the persistence store (heatmap/database.py). *)
(*                                                                         *)
(* Time is a logical clock counted in minutes.                             *)
(***************************************************************************)
EXTENDS Integers, Sequences, FiniteSets, TLC

(***************************************************************************)
(* Bounds of the model.                                                    *)
(***************************************************************************)
NumCallers == 1
NumWriters == 2
MaxLoops == 2
MaxNow == 2
MaxTerid == 1
UpdateInterval == 1
BatchSize == 1

(***************************************************************************)
(* Program constants.                                                      *)
(***************************************************************************)
CooldownSeconds == 60
JoinTimeoutSeconds == 10
KeyValidityMinutes == 50
DaysToKeep == 30
LookbackMinutes == 10

Callers == 1..NumCallers
Loops == (NumCallers + 1)..(NumCallers + MaxLoops)
Threads == Callers \cup Loops
Terids == 1..MaxTerid
Writers == 1..NumWriters
NoThread == 0
Never == -1

VARIABLES
    kind,              \* "device" or "alarm": which scheduler/service pair this instance is
    now,               \* wall clock, minutes
    running,           \* scheduler._running
    stop_event,        \* scheduler._stop_event is set
    scheduler_thread,  \* scheduler._scheduler_thread (NoThread = None)
    next_run_time,     \* scheduler._next_run_time (Never = None)
    pc,                \* position of every thread
    wake,              \* per loop thread: end of its current timed wait / sleep
    op,                \* per caller: the scheduler method it is executing
    ret,               \* per caller: the value the method returned
    res,               \* per thread: value returned by its last sync() call
    sync_lock,         \* service._sync_lock is held
    sync_in_progress,  \* service._sync_in_progress
    last_sync_time,    \* service._last_sync_time (Never = None)
    auth_key,          \* api_client._auth_key (0 = None)
    key_expires_at,    \* api_client._key_expires_at
    devices,           \* devices table: sequence of rows
    alarms,            \* alarms table: sequence of rows
    wr,                \* per store writer: the insert call it is executing
    gps,               \* gps table: sequence of rows
    out,               \* the last store / service calls that returned, newest first
    cl                 \* the API client call in progress (request by request)

schedVars == <<running, stop_event, scheduler_thread, next_run_time>>
svcVars == <<sync_lock, sync_in_progress, last_sync_time>>
authVars == <<auth_key, key_expires_at>>
storeVars == <<devices, alarms, wr>>
callVars == <<op, ret>>
extVars == <<gps, out, cl>>
vars == <<kind, now, running, stop_event, scheduler_thread, next_run_time, pc, wake,
          op, ret, res, sync_lock, sync_in_progress, last_sync_time, auth_key,
          key_expires_at, devices, alarms, wr, gps, out, cl>>

(***************************************************************************)
(* Helpers.                                                                *)
(***************************************************************************)
Min(S) == CHOOSE x \in S : \A y \in S : x <= y

RECURSIVE SetToSeq(_)
SetToSeq(S) == IF S = {} THEN <<>> ELSE <<Min(S)>> \o SetToSeq(S \ {Min(S)})

Range(s) == {s[i] : i \in 1..Len(s)}

RECURSIVE SelectRows(_, _)
SelectRows(rows, keep) ==
    IF rows = <<>> THEN <<>>
    ELSE IF Head(rows) \in keep THEN <<Head(rows)>> \o SelectRows(Tail(rows), keep)
    ELSE SelectRows(Tail(rows), keep)

(***************************************************************************)
(* Persistence store (heatmap/database.py).  Every statement below is one  *)
(* connection-scoped transaction of the code.                              *)
(***************************************************************************)
MaxServerTime == 2

\* Alarm payloads the remote API can report.
AlarmUniverse ==
    [terid : Terids, gpstime : {1}, type : {4}, content : {"IO alarm"},
     time : 1..MaxServerTime]

\* The column values bound to the INSERT statement, plus the creation stamp.
AlarmRow(alarm, t) ==
    [terid |-> alarm.terid, gps_time |-> alarm.gpstime, alarm_type |-> alarm.type,
     alarm_content |-> alarm.content, server_time |-> alarm.time, created_at |-> t]

\* The uniqueness constraint of the alarms table.
UniqueKey(row) == <<row.terid, row.gps_time, row.alarm_type, row.alarm_content>>

Conflicts_never(rows, row) == FALSE

Conflicts(rows, row) == \E i \in 1..Len(rows) : UniqueKey(rows[i]) = UniqueKey(row)

InsertOrIgnore_replaces(rows, row) ==
    [rows |-> Append(SelectRows(rows, {r \in Range(rows) : UniqueKey(r) # UniqueKey(row)}),
                     row),
     rowcount |-> 1]

\* INSERT OR IGNORE: the table afterwards and cursor.rowcount.
InsertOrIgnore(rows, row) ==
    IF Conflicts(rows, row)
    THEN [rows |-> rows, rowcount |-> 0]
    ELSE [rows |-> Append(rows, row), rowcount |-> 1]

\* One iteration of the loop of insert_alarms_batch; failing = the statement raised.
CountRow_inverted(acc, alarm, failing, t) ==
    IF failing
    THEN [acc EXCEPT !.failed = @ + 1]
    ELSE LET r == InsertOrIgnore(acc.rows, AlarmRow(alarm, t))
         IN IF r.rowcount > 0
            THEN [acc EXCEPT !.rows = r.rows, !.duplicates = @ + 1]
            ELSE [acc EXCEPT !.rows = r.rows, !.inserted = @ + 1]

CountRow(acc, alarm, failing, t) ==
    IF failing
    THEN [acc EXCEPT !.failed = @ + 1]
    ELSE LET r == InsertOrIgnore(acc.rows, AlarmRow(alarm, t))
         IN IF r.rowcount > 0
            THEN [acc EXCEPT !.rows = r.rows, !.inserted = @ + 1]
            ELSE [acc EXCEPT !.rows = r.rows, !.duplicates = @ + 1]

RECURSIVE InsertFrom(_, _, _, _, _)
InsertFrom(acc, list, i, fails, t) ==
    IF i > Len(list) THEN acc
    ELSE InsertFrom(CountRow(acc, list[i], i \in fails, t), list, i + 1, fails, t)

\* insert_alarms_batch(alarms): fails = positions of the list whose statement raises.
insert_alarms_batch(rows, list, fails, t) ==
    InsertFrom([rows |-> rows, inserted |-> 0, duplicates |-> 0, failed |-> 0],
               list, 1, fails, t)

\* DELETE FROM alarms WHERE created_at < now - days_to_keep days.
cleanup_old_alarms(rows, t) ==
    SelectRows(rows, {r \in Range(rows) : ~(r.created_at < t - DaysToKeep * 24 * 60)})

\* Device payloads of the remote API: the fleet as the scheduled syncs see it.
FleetPayloads == [terid : Terids, carlicence : {"AB-1"}]

\* _normalize_device_data(): absent (empty) fields get their defaults.
NormalizeDevice(device) ==
    [terid |-> device.terid,
     carlicense |-> IF device.carlicence # "" THEN device.carlicence ELSE "Unknown"]

HasDevice_never(rows, terid) == FALSE

\* SELECT id FROM devices WHERE terid = ?
HasDevice(rows, terid) == \E i \in 1..Len(rows) : rows[i].terid = terid

UpdateDevice_drops(rows, n, t) == SelectRows(rows, {r \in Range(rows) : r.terid # n.terid})

\* UPDATE devices SET ..., last_updated = CURRENT_TIMESTAMP WHERE terid = ?
UpdateDevice(rows, n, t) ==
    [i \in 1..Len(rows) |->
        IF rows[i].terid = n.terid
        THEN [rows[i] EXCEPT !.car_license = n.carlicense, !.last_updated = t]
        ELSE rows[i]]

\* INSERT INTO devices (...)
InsertDevice(rows, n, t) ==
    Append(rows, [terid |-> n.terid, car_license |-> n.carlicense, last_updated |-> t])

\* Devices table: one iteration of upsert_devices_batch; failing = a statement raised.
UpsertRow(acc, device, failing, t) ==
    LET n == NormalizeDevice(device)
    IN  IF failing
        THEN [acc EXCEPT !.failed = @ + 1]
        ELSE IF HasDevice(acc.rows, n.terid)
        THEN [acc EXCEPT !.rows = UpdateDevice(acc.rows, n, t), !.updated = @ + 1]
        ELSE [acc EXCEPT !.rows = InsertDevice(acc.rows, n, t), !.inserted = @ + 1]

RECURSIVE UpsertFrom(_, _, _, _, _)
UpsertFrom(acc, list, i, fails, t) ==
    IF i > Len(list) THEN acc
    ELSE UpsertFrom(UpsertRow(acc, list[i], i \in fails, t), list, i + 1, fails, t)

upsert_devices_batch(rows, list, fails, t) ==
    UpsertFrom([rows |-> rows, inserted |-> 0, updated |-> 0, failed |-> 0],
               list, 1, fails, t)

\* SELECT terid FROM devices ORDER BY terid
get_all_device_terids(rows) == SetToSeq({rows[i].terid : i \in 1..Len(rows)})

Tolerated_inclusive(failed, total) == failed = 0 \/ failed * 10 <= total

Tolerated_none(failed, total) == failed = 0

\* failed == 0 or failed < total * 0.1
Tolerated(failed, total) == failed = 0 \/ failed * 10 < total

(***************************************************************************)
(* API client (docker/api_client.py): the auth session.                    *)
(***************************************************************************)
MaxAnswerLen == 1

IsKeyValid_always(key, expires, t) == TRUE

IsKeyValid_never(key, expires, t) == FALSE

\* _is_key_valid()
IsKeyValid(key, expires, t) == key # 0 /\ t < expires

\* authenticate(): granted = the remote answered errorcode 200.
authenticate(sess, granted, t) ==
    IF granted
    THEN [key |-> 1, expires |-> t + KeyValidityMinutes, ok |-> TRUE]
    ELSE [key |-> sess.key, expires |-> sess.expires, ok |-> FALSE]

\* _ensure_authenticated()
EnsureAuthenticated(sess, granted, t) ==
    IF ~IsKeyValid(sess.key, sess.expires, t)
    THEN authenticate(sess, granted, t)
    ELSE [key |-> sess.key, expires |-> sess.expires, ok |-> TRUE]

Session == [key |-> auth_key, expires |-> key_expires_at]

\* What the remote side does to one fetch: grants the login (when one is needed),
\* answers the data request, and the list it answers with; fails = positions of the
\* list whose store statement raises.
Answers(S) ==
    {a \in [auth : BOOLEAN, ok : BOOLEAN,
            list : UNION {[1..n -> S] : n \in 0..MaxAnswerLen},
            fails : SUBSET (1..MaxAnswerLen)] :
        /\ a.fails \subseteq 1..Len(a.list)
        /\ (~a.auth \/ ~a.ok) => a.list = <<>>
        /\ ~a.auth => ~a.ok}

(***************************************************************************)
(* Device sync cycle: the try block of DeviceSyncService.sync_devices.     *)
(***************************************************************************)
DeviceCycle_lenient(rows, sess, last, a, t) ==
    LET au == EnsureAuthenticated(sess, a.auth, t)
        fetched == au.ok /\ a.ok       \* get_devices() did not return None
        r == upsert_devices_batch(rows, a.list, a.fails, t)
        total == r.inserted + r.updated + r.failed
    IN  IF ~fetched
        THEN [rows |-> rows, key |-> au.key, expires |-> au.expires,
              last |-> last, result |-> TRUE]
        ELSE IF a.list = <<>>
        THEN [rows |-> rows, key |-> au.key, expires |-> au.expires,
              last |-> last, result |-> TRUE]
        ELSE [rows |-> r.rows, key |-> au.key, expires |-> au.expires,
              last |-> t, result |-> Tolerated(r.failed, total)]

DeviceCycle(rows, sess, last, a, t) ==
    LET au == EnsureAuthenticated(sess, a.auth, t)
        fetched == au.ok /\ a.ok       \* get_devices() did not return None
        r == upsert_devices_batch(rows, a.list, a.fails, t)
        total == r.inserted + r.updated + r.failed
    IN  IF ~fetched
        THEN [rows |-> rows, key |-> au.key, expires |-> au.expires,
              last |-> last, result |-> FALSE]
        ELSE IF a.list = <<>>
        THEN [rows |-> rows, key |-> au.key, expires |-> au.expires,
              last |-> last, result |-> TRUE]
        ELSE [rows |-> r.rows, key |-> au.key, expires |-> au.expires,
              last |-> t, result |-> Tolerated(r.failed, total)]

(***************************************************************************)
(* Alarm sync cycle: the try block of AlarmSyncService.sync_alarms.        *)
(***************************************************************************)
NumBatches(terids) == (Len(terids) + BatchSize - 1) \div BatchSize

Batch(terids, k) ==
    SubSeq(terids, (k - 1) * BatchSize + 1,
           IF k * BatchSize < Len(terids) THEN k * BatchSize ELSE Len(terids))

\* Alarms of the batch's devices the remote holds inside the queried window.
InWindow(batch, start, end) ==
    {x \in AlarmUniverse : x.terid \in Range(batch) /\ start <= x.gpstime /\ x.gpstime <= end}

BatchStep_uncounted(acc, batch, a, t) ==
    LET au == EnsureAuthenticated([key |-> acc.key, expires |-> acc.expires], a.auth, t)
        fetched == au.ok /\ a.ok
        r == insert_alarms_batch(acc.rows, a.list, a.fails, t)
    IN  IF ~fetched
        THEN [acc EXCEPT !.key = au.key, !.expires = au.expires,
                         !.total_failed = @ + 1]
        ELSE IF a.list = <<>>
        THEN [acc EXCEPT !.key = au.key, !.expires = au.expires]
        ELSE [acc EXCEPT !.key = au.key, !.expires = au.expires, !.rows = r.rows,
                         !.total_alarms = @ + Len(a.list),
                         !.total_inserted = @ + r.inserted,
                         !.total_failed = @ + r.failed]

\* One iteration of the batch loop.
BatchStep(acc, batch, a, t) ==
    LET au == EnsureAuthenticated([key |-> acc.key, expires |-> acc.expires], a.auth, t)
        fetched == au.ok /\ a.ok       \* get_alarm_details() did not return None
        r == insert_alarms_batch(acc.rows, a.list, a.fails, t)
    IN  IF ~fetched
        THEN [acc EXCEPT !.key = au.key, !.expires = au.expires,
                         !.total_failed = @ + Len(batch)]
        ELSE IF a.list = <<>>
        THEN [acc EXCEPT !.key = au.key, !.expires = au.expires]
        ELSE [acc EXCEPT !.key = au.key, !.expires = au.expires, !.rows = r.rows,
                         !.total_alarms = @ + Len(a.list),
                         !.total_inserted = @ + r.inserted,
                         !.total_failed = @ + r.failed]

RECURSIVE BatchLoop(_, _, _, _, _)
BatchLoop(acc, terids, k, answers, t) ==
    IF k > NumBatches(terids) THEN acc
    ELSE BatchLoop(BatchStep(acc, Batch(terids, k), answers[k], t),
                   terids, k + 1, answers, t)

\* The retention-cleanup trigger of sync_alarms (last = _last_sync_time, just set).
CleanupDue(last, t) == (last % 60 = 0) \/ ((last - t) * 60 < 300)

\* The answers the remote can give to the batches of one cycle.
CycleAnswers(terids, t) ==
    {f \in [1..NumBatches(terids) -> Answers(AlarmUniverse)] :
        \A k \in 1..NumBatches(terids) :
            Range(f[k].list) \subseteq InWindow(Batch(terids, k), t - LookbackMinutes, t)}

AlarmCycle(rows, devs, sess, last, answers, t) ==
    LET terids == get_all_device_terids(devs)
        acc == BatchLoop([rows |-> rows, key |-> sess.key, expires |-> sess.expires,
                          total_alarms |-> 0, total_inserted |-> 0, total_failed |-> 0],
                         terids, 1, answers, t)
        cleaned == IF CleanupDue(t, t) THEN cleanup_old_alarms(acc.rows, t) ELSE acc.rows
    IN  IF terids = <<>>
        THEN [rows |-> rows, key |-> sess.key, expires |-> sess.expires,
              last |-> last, result |-> TRUE]
        ELSE [rows |-> cleaned, key |-> acc.key, expires |-> acc.expires,
              last |-> t, result |-> Tolerated(acc.total_failed, Len(terids))]

(***************************************************************************)
(* Threads.  Callers are the foreground/control threads that call the      *)
(* scheduler's methods; loop threads are the scheduler's background        *)
(* threads, created by start().                                            *)
(***************************************************************************)
SyncPcs == {"sync_enter", "sync_acquire", "sync_setflag", "sync_body",
            "sync_finally", "sync_release"}
\* Positions of sync() inside `with self._sync_lock`.
LockHeldPcs == {"sync_setflag", "sync_body", "sync_finally", "sync_release"}
StartPcs == {"start_validate", "start_set", "start_launch"}

BoolStr(b) == IF b THEN "T" ELSE "F"

Alive(t) == t # NoThread /\ pc[t] \notin {"unborn", "exited"}

\* start() ends with `return True`, whatever the initial sync returned.
StartResult(value) == TRUE

\* A sync() call of thread t returns value: the caller's method returns, the loop
\* logs the outcome and goes back to the top of its while loop.
AfterSync(t, value) ==
    /\ res' = [res EXCEPT ![t] = value]
    /\ pc' = [pc EXCEPT ![t] = IF t \in Loops THEN "loop_top" ELSE "done"]
    /\ ret' = IF t \in Callers
              THEN [ret EXCEPT ![t] = IF op[t] = "start"
                                      THEN BoolStr(StartResult(value))
                                      ELSE BoolStr(value)]
              ELSE ret

(***************************************************************************)
(* sync_devices() / sync_alarms(): the single-flight guard.                *)
(***************************************************************************)
\* `if self._sync_in_progress: return False`
SyncEnter(t) ==
    /\ pc[t] = "sync_enter"
    /\ IF sync_in_progress
       THEN AfterSync(t, FALSE)
       ELSE /\ pc' = [pc EXCEPT ![t] = "sync_acquire"]
            /\ UNCHANGED <<res, ret>>
    /\ UNCHANGED <<extVars, kind, now, schedVars, wake, op, svcVars, authVars, storeVars>>

\* `with self._sync_lock:` blocks until the lock is free.
LockFree_always == TRUE

LockFree == ~sync_lock

SyncAcquire(t) ==
    /\ pc[t] = "sync_acquire"
    /\ LockFree
    /\ sync_lock' = TRUE
    /\ pc' = [pc EXCEPT ![t] = "sync_setflag"]
    /\ UNCHANGED <<extVars, kind, now, schedVars, wake, callVars, res, sync_in_progress,
                   last_sync_time, authVars, storeVars>>

\* `self._sync_in_progress = True`
SyncSetFlag(t) ==
    /\ pc[t] = "sync_setflag"
    /\ sync_in_progress' = TRUE
    /\ pc' = [pc EXCEPT ![t] = "sync_body"]
    /\ UNCHANGED <<extVars, kind, now, schedVars, wake, callVars, res, sync_lock,
                   last_sync_time, authVars, storeVars>>

\* The try block: fetch from the remote API and persist.
SyncBodyDevice(t) ==
    /\ pc[t] = "sync_body"
    /\ kind = "device"
    /\ \E a \in Answers(FleetPayloads) :
         LET c == DeviceCycle(devices, Session, last_sync_time, a, now)
         IN  /\ devices' = c.rows
             /\ auth_key' = c.key
             /\ key_expires_at' = c.expires
             /\ last_sync_time' = c.last
             /\ res' = [res EXCEPT ![t] = c.result]
    /\ pc' = [pc EXCEPT ![t] = "sync_finally"]
    /\ UNCHANGED <<extVars, kind, now, schedVars, wake, callVars, sync_lock, sync_in_progress,
                   alarms, wr>>

SyncBodyAlarm(t) ==
    /\ pc[t] = "sync_body"
    /\ kind = "alarm"
    /\ \E answers \in CycleAnswers(get_all_device_terids(devices), now) :
         LET c == AlarmCycle(alarms, devices, Session, last_sync_time, answers, now)
         IN  /\ alarms' = c.rows
             /\ auth_key' = c.key
             /\ key_expires_at' = c.expires
             /\ last_sync_time' = c.last
             /\ res' = [res EXCEPT ![t] = c.result]
    /\ pc' = [pc EXCEPT ![t] = "sync_finally"]
    /\ UNCHANGED <<extVars, kind, now, schedVars, wake, callVars, sync_lock, sync_in_progress,
                   devices, wr>>

\* Something inside the try block throws: `except Exception: return False`.  The API
\* client throws before the session or the store is touched; the store throws after
\* the client has made sure of its token.
SyncBodyRaises(t) ==
    /\ pc[t] = "sync_body"
    /\ \E thrown \in {"api", "store"}, granted \in BOOLEAN :
         LET au == EnsureAuthenticated(Session, granted, now)
         IN  /\ thrown = "api" => ~granted
             /\ thrown = "store" => au.ok
             /\ auth_key' = IF thrown = "store" THEN au.key ELSE auth_key
             /\ key_expires_at' = IF thrown = "store" THEN au.expires ELSE key_expires_at
    /\ res' = [res EXCEPT ![t] = FALSE]
    /\ pc' = [pc EXCEPT ![t] = "sync_finally"]
    /\ UNCHANGED <<extVars, kind, now, schedVars, wake, callVars, svcVars, storeVars>>

SyncFinally_keeps(t) ==
    /\ pc[t] = "sync_finally"
    /\ pc' = [pc EXCEPT ![t] = "sync_release"]
    /\ UNCHANGED <<extVars, kind, now, schedVars, wake, callVars, res, svcVars, authVars,
                   storeVars>>

\* `finally: self._sync_in_progress = False`
SyncFinally(t) ==
    /\ pc[t] = "sync_finally"
    /\ sync_in_progress' = FALSE
    /\ pc' = [pc EXCEPT ![t] = "sync_release"]
    /\ UNCHANGED <<extVars, kind, now, schedVars, wake, callVars, res, sync_lock,
                   last_sync_time, authVars, storeVars>>

\* Leaving the with block releases the lock; sync() returns.
SyncRelease(t) ==
    /\ pc[t] = "sync_release"
    /\ sync_lock' = FALSE
    /\ AfterSync(t, res[t])
    /\ UNCHANGED <<extVars, kind, now, schedVars, wake, op, sync_in_progress, last_sync_time,
                   authVars, storeVars>>

(***************************************************************************)
(* Scheduler methods (DeviceSyncScheduler / AlarmSyncScheduler).           *)
(***************************************************************************)
Unborn == {t \in Loops : pc[t] = "unborn"}
Starting == {c \in Callers : pc[c] \in StartPcs}

\* start(): `if self._running: return False`
StartCall_unchecked(c) ==
    /\ pc[c] = "idle"
    /\ Cardinality(Unborn) > Cardinality(Starting)
    /\ op' = [op EXCEPT ![c] = "start"]
    /\ pc' = [pc EXCEPT ![c] = IF kind = "device" THEN "start_validate" ELSE "start_set"]
    /\ UNCHANGED <<extVars, kind, now, schedVars, wake, ret, res, svcVars, authVars, storeVars>>

StartCall(c) ==
    /\ pc[c] = "idle"
    /\ Cardinality(Unborn) > Cardinality(Starting)
    /\ op' = [op EXCEPT ![c] = "start"]
    /\ IF running
       THEN /\ pc' = [pc EXCEPT ![c] = "done"]
            /\ ret' = [ret EXCEPT ![c] = "F"]
       ELSE /\ pc' = [pc EXCEPT ![c] = IF kind = "device" THEN "start_validate"
                                       ELSE "start_set"]
            /\ UNCHANGED ret
    /\ UNCHANGED <<extVars, kind, now, schedVars, wake, res, svcVars, authVars, storeVars>>

StartValidate_ignored(c) ==
    /\ pc[c] = "start_validate"
    /\ \E granted \in BOOLEAN :
         LET au == authenticate(Session, granted, now)
         IN  /\ auth_key' = au.key
             /\ key_expires_at' = au.expires
    /\ pc' = [pc EXCEPT ![c] = "start_set"]
    /\ UNCHANGED <<extVars, kind, now, schedVars, wake, op, ret, res, svcVars, storeVars>>

\* DeviceSyncScheduler.start(): `if not self.sync_service.validate_api_connection()`
StartValidate(c) ==
    /\ pc[c] = "start_validate"
    /\ \E granted \in BOOLEAN :
         LET au == authenticate(Session, granted, now)
         IN  /\ auth_key' = au.key
             /\ key_expires_at' = au.expires
             /\ IF au.ok
                THEN /\ pc' = [pc EXCEPT ![c] = "start_set"]
                     /\ UNCHANGED ret
                ELSE /\ pc' = [pc EXCEPT ![c] = "done"]
                     /\ ret' = [ret EXCEPT ![c] = "F"]
    /\ UNCHANGED <<extVars, kind, now, schedVars, wake, op, res, svcVars, storeVars>>

\* `self._running = True; self._stop_event.clear()`
StartSet(c) ==
    /\ pc[c] = "start_set"
    /\ running' = TRUE
    /\ stop_event' = FALSE
    /\ pc' = [pc EXCEPT ![c] = "start_launch"]
    /\ UNCHANGED <<extVars, kind, now, scheduler_thread, next_run_time, wake, callVars, res,
                   svcVars, authVars, storeVars>>

\* Creates and starts the loop thread, then calls sync() for the initial sync.
StartLaunch_nosync(c) ==
    /\ pc[c] = "start_launch"
    /\ Unborn # {}
    /\ scheduler_thread' = Min(Unborn)
    /\ pc' = [pc EXCEPT ![Min(Unborn)] = "loop_top", ![c] = "done"]
    /\ ret' = [ret EXCEPT ![c] = "T"]
    /\ UNCHANGED <<extVars, kind, now, running, stop_event, next_run_time, wake, op, res,
                   svcVars, authVars, storeVars>>

StartLaunch(c) ==
    /\ pc[c] = "start_launch"
    /\ Unborn # {}
    /\ scheduler_thread' = Min(Unborn)
    /\ pc' = [pc EXCEPT ![Min(Unborn)] = "loop_top", ![c] = "sync_enter"]
    /\ UNCHANGED <<extVars, kind, now, running, stop_event, next_run_time, wake, callVars, res,
                   svcVars, authVars, storeVars>>

\* stop(): `if not self._running: return False`
StopCall(c) ==
    /\ pc[c] = "idle"
    /\ op' = [op EXCEPT ![c] = "stop"]
    /\ IF ~running
       THEN /\ pc' = [pc EXCEPT ![c] = "done"]
            /\ ret' = [ret EXCEPT ![c] = "F"]
       ELSE /\ pc' = [pc EXCEPT ![c] = "stop_set"]
            /\ UNCHANGED ret
    /\ UNCHANGED <<extVars, kind, now, schedVars, wake, res, svcVars, authVars, storeVars>>

\* `self._running = False; self._stop_event.set()`
StopSet(c) ==
    /\ pc[c] = "stop_set"
    /\ running' = FALSE
    /\ stop_event' = TRUE
    /\ pc' = [pc EXCEPT ![c] = "stop_join"]
    /\ UNCHANGED <<extVars, kind, now, scheduler_thread, next_run_time, wake, callVars, res,
                   svcVars, authVars, storeVars>>

\* join(timeout=10) runs out only on a thread that cannot leave its position within
\* the timeout: one inside the sync body (remote calls, store writes), one blocked on
\* the service's lock, or one in the cooldown sleep.
CanOutlastJoin(t) ==
    \/ pc[t] = "sync_body"
    \/ pc[t] = "sync_acquire" /\ sync_lock
    \/ pc[t] = "loop_cooldown" /\ CooldownSeconds > JoinTimeoutSeconds

\* The rest of stop(): join the loop thread, report whether it is gone.
StopJoin(c) ==
    /\ pc[c] = "stop_join"
    /\ \/ /\ ~Alive(scheduler_thread)
          /\ ret' = [ret EXCEPT ![c] = "T"]
       \/ /\ Alive(scheduler_thread)
          /\ CanOutlastJoin(scheduler_thread)
          /\ ret' = [ret EXCEPT ![c] = "F"]
    /\ pc' = [pc EXCEPT ![c] = "done"]
    /\ UNCHANGED <<extVars, kind, now, schedVars, wake, op, res, svcVars, authVars, storeVars>>

\* force_sync(): `return self.sync_service.force_sync()`, which calls sync().
ForceSyncCall_rearms(c) ==
    /\ pc[c] = "idle"
    /\ op' = [op EXCEPT ![c] = "force_sync"]
    /\ pc' = [pc EXCEPT ![c] = "sync_enter"]
    /\ next_run_time' = now + UpdateInterval
    /\ UNCHANGED <<extVars, kind, now, running, stop_event, scheduler_thread, wake, ret, res,
                   svcVars, authVars, storeVars>>

ForceSyncCall(c) ==
    /\ pc[c] = "idle"
    /\ op' = [op EXCEPT ![c] = "force_sync"]
    /\ pc' = [pc EXCEPT ![c] = "sync_enter"]
    /\ UNCHANGED <<extVars, kind, now, schedVars, wake, ret, res, svcVars, authVars, storeVars>>

\* get_status(): reads the scheduler's fields and the service's get_sync_status(),
\* which reads the flag, the last sync time and counts from the store.
GetStatus_syncs(c) ==
    /\ pc[c] = "idle"
    /\ op' = [op EXCEPT ![c] = "get_status"]
    /\ pc' = [pc EXCEPT ![c] = "sync_enter"]
    /\ UNCHANGED <<extVars, kind, now, schedVars, wake, ret, res, svcVars, authVars, storeVars>>

GetStatus(c) ==
    /\ pc[c] = "idle"
    /\ op' = [op EXCEPT ![c] = "get_status"]
    /\ ret' = [ret EXCEPT ![c] = "T"]
    /\ pc' = [pc EXCEPT ![c] = "done"]
    /\ UNCHANGED <<extVars, kind, now, schedVars, wake, res, svcVars, authVars, storeVars>>

\* The caller takes the returned value and is free to call again.
Return(c) ==
    /\ pc[c] = "done"
    /\ pc' = [pc EXCEPT ![c] = "idle"]
    /\ op' = [op EXCEPT ![c] = "none"]
    /\ ret' = [ret EXCEPT ![c] = "none"]
    /\ res' = [res EXCEPT ![c] = FALSE]
    /\ UNCHANGED <<extVars, kind, now, schedVars, wake, svcVars, authVars, storeVars>>

(***************************************************************************)
(* _scheduler_loop().                                                      *)
(***************************************************************************)
LoopTop_unconditional(t) ==
    /\ pc[t] = "loop_top"
    /\ next_run_time' = now + UpdateInterval
    /\ wake' = [wake EXCEPT ![t] = now + UpdateInterval]
    /\ pc' = [pc EXCEPT ![t] = "loop_wait"]
    /\ res' = [res EXCEPT ![t] = FALSE]
    /\ UNCHANGED <<extVars, kind, now, running, stop_event, scheduler_thread, callVars,
                   svcVars, authVars, storeVars>>

\* `while self._running and not self._stop_event.is_set():` then the next run time
\* is computed and the interruptible wait begins.
LoopTop(t) ==
    /\ pc[t] = "loop_top"
    /\ IF running /\ ~stop_event
       THEN /\ next_run_time' = now + UpdateInterval
            /\ wake' = [wake EXCEPT ![t] = now + UpdateInterval]
            /\ pc' = [pc EXCEPT ![t] = "loop_wait"]
       ELSE /\ pc' = [pc EXCEPT ![t] = "exited"]
            /\ UNCHANGED <<next_run_time, wake>>
    /\ res' = [res EXCEPT ![t] = FALSE]
    /\ UNCHANGED <<extVars, kind, now, running, stop_event, scheduler_thread, callVars,
                   svcVars, authVars, storeVars>>

LoopWait_timed(t) ==
    /\ pc[t] = "loop_wait"
    /\ now >= wake[t]
    /\ pc' = [pc EXCEPT ![t] = IF stop_event THEN "exited" ELSE "loop_check"]
    /\ wake' = [wake EXCEPT ![t] = 0]
    /\ UNCHANGED <<extVars, kind, now, schedVars, callVars, res, svcVars, authVars, storeVars>>

\* `if self._stop_event.wait(timeout=...): break`
LoopWait(t) ==
    /\ pc[t] = "loop_wait"
    /\ \/ /\ stop_event
          /\ pc' = [pc EXCEPT ![t] = "exited"]
       \/ /\ ~stop_event
          /\ now >= wake[t]
          /\ pc' = [pc EXCEPT ![t] = "loop_check"]
    /\ wake' = [wake EXCEPT ![t] = 0]
    /\ UNCHANGED <<extVars, kind, now, schedVars, callVars, res, svcVars, authVars, storeVars>>

\* `if not self._running: break`, else the scheduled sync() is called.
LoopCheck(t) ==
    /\ pc[t] = "loop_check"
    /\ pc' = [pc EXCEPT ![t] = IF ~running THEN "exited" ELSE "sync_enter"]
    /\ UNCHANGED <<extVars, kind, now, schedVars, wake, callVars, res, svcVars, authVars,
                   storeVars>>

\* The sync operation raises: `except Exception`, then time.sleep(60).
LoopSyncRaises_escapes(t) ==
    /\ pc[t] = "sync_enter"
    /\ t \in Loops
    /\ pc' = [pc EXCEPT ![t] = "exited"]
    /\ UNCHANGED <<extVars, kind, now, schedVars, wake, callVars, res, svcVars, authVars,
                   storeVars>>

LoopSyncRaises(t) ==
    /\ pc[t] = "sync_enter"
    /\ t \in Loops
    /\ pc' = [pc EXCEPT ![t] = "loop_cooldown"]
    /\ wake' = [wake EXCEPT ![t] = now + CooldownSeconds \div 60]
    /\ UNCHANGED <<extVars, kind, now, schedVars, callVars, res, svcVars, authVars, storeVars>>

\* The cooldown sleep is over; back to the top of the while loop.
LoopCooldown(t) ==
    /\ pc[t] = "loop_cooldown"
    /\ now >= wake[t]
    /\ pc' = [pc EXCEPT ![t] = "loop_top"]
    /\ wake' = [wake EXCEPT ![t] = 0]
    /\ UNCHANGED <<extVars, kind, now, schedVars, callVars, res, svcVars, authVars, storeVars>>

\* A minute passes.
Tick ==
    /\ now < MaxNow
    /\ now' = now + 1
    /\ UNCHANGED <<extVars, kind, schedVars, pc, wake, callVars, res, svcVars, authVars,
                   storeVars>>

(***************************************************************************)
(* The scheduler with its service.                                         *)
(***************************************************************************)
IdleWriter ==
    [src |-> "idle", list |-> <<>>, pos |-> 0, inserted |-> 0, duplicates |-> 0,
     failed |-> 0]

DeviceRows(S) ==
    [i \in 1..Cardinality(S) |->
        [terid |-> SetToSeq(S)[i], car_license |-> "AB-1", last_updated |-> 0]]

IdleClient ==
    [pc |-> "idle", op |-> "none", valid |-> FALSE, authed |-> FALSE, sent |-> FALSE,
     outcome |-> "none", ret |-> "none", list |-> <<>>]


Init ==
    /\ kind \in {"device", "alarm"}
    /\ now = 0
    /\ running = FALSE
    /\ stop_event = FALSE
    /\ scheduler_thread = NoThread
    /\ next_run_time = Never
    /\ pc = [t \in Threads |-> IF t \in Callers THEN "idle" ELSE "unborn"]
    /\ wake = [t \in Loops |-> 0]
    /\ op = [c \in Callers |-> "none"]
    /\ ret = [c \in Callers |-> "none"]
    /\ res = [t \in Threads |-> FALSE]
    /\ sync_lock = FALSE
    /\ sync_in_progress = FALSE
    /\ last_sync_time = Never
    /\ auth_key = 0
    /\ key_expires_at = 0
    /\ devices \in {DeviceRows(S) : S \in SUBSET Terids}
    /\ alarms = <<>>
    /\ wr = [w \in Writers |-> IdleWriter]
    /\ gps = <<>>
    /\ out = <<>>
    /\ cl = IdleClient

Next ==
    \/ \E c \in Callers :
         \/ StartCall(c)
         \/ StartValidate(c)
         \/ StartSet(c)
         \/ StartLaunch(c)
         \/ StopCall(c)
         \/ StopSet(c)
         \/ StopJoin(c)
         \/ ForceSyncCall(c)
         \/ GetStatus(c)
         \/ Return(c)
    \/ \E t \in Loops :
         \/ LoopTop(t)
         \/ LoopWait(t)
         \/ LoopCheck(t)
         \/ LoopSyncRaises(t)
         \/ LoopCooldown(t)
    \/ \E t \in Threads :
         \/ SyncEnter(t)
         \/ SyncAcquire(t)
         \/ SyncSetFlag(t)
         \/ SyncBodyDevice(t)
         \/ SyncBodyAlarm(t)
         \/ SyncBodyRaises(t)
         \/ SyncFinally(t)
         \/ SyncRelease(t)
    \/ Tick

Spec == Init /\ [][Next]_vars

(***************************************************************************)
(* The alarms table under concurrent writers.  Every INSERT OR IGNORE is   *)
(* its own transaction, so the batch inserts of concurrent alarm sync      *)
(* cycles, single-device syncs and direct inserts interleave statement by  *)
(* statement.                                                              *)
(***************************************************************************)
DeviceLookbackHours == 1

\* Non-empty lists an API response can carry over a set of alarms.
AlarmLists(S) == UNION {[1..n -> S] : n \in 1..MaxAnswerLen}

\* insert_alarm(alarm_data): one statement; True unless the statement raised.
insert_alarm(rows, alarm, failing, t) ==
    IF failing
    THEN [rows |-> rows, ok |-> FALSE]
    ELSE [rows |-> InsertOrIgnore(rows, AlarmRow(alarm, t)).rows, ok |-> TRUE]

\* sync_alarms(): a batch of the known devices was fetched over [now - lookback, now]
\* and its non-empty answer is handed to insert_alarms_batch.
BeginCycleInsert(w) ==
    /\ wr[w].src = "idle"
    /\ \E k \in 1..NumBatches(get_all_device_terids(devices)) :
         \E list \in AlarmLists(InWindow(Batch(get_all_device_terids(devices), k),
                                         now - LookbackMinutes, now)) :
            wr' = [wr EXCEPT ![w] = [IdleWriter EXCEPT !.src = "cycle", !.list = list]]
    /\ UNCHANGED <<extVars, kind, now, schedVars, pc, wake, callVars, res, svcVars, authVars,
                   devices, alarms>>

\* sync_alarms_for_device(terid): the device's alarms over [now - lookback_hours, now].
BeginDeviceInsert(w) ==
    /\ wr[w].src = "idle"
    /\ \E terid \in Terids :
         \E list \in AlarmLists(InWindow(<<terid>>, now - DeviceLookbackHours * 60, now)) :
            wr' = [wr EXCEPT ![w] = [IdleWriter EXCEPT !.src = "device", !.list = list]]
    /\ UNCHANGED <<extVars, kind, now, schedVars, pc, wake, callVars, res, svcVars, authVars,
                   devices, alarms>>

\* The next iteration of the loop of insert_alarms_batch.
BatchStatement(w) ==
    /\ wr[w].src \in {"cycle", "device"}
    /\ wr[w].pos < Len(wr[w].list)
    /\ \E failing \in BOOLEAN :
         LET acc == CountRow([rows |-> alarms, inserted |-> wr[w].inserted,
                              duplicates |-> wr[w].duplicates, failed |-> wr[w].failed],
                             wr[w].list[wr[w].pos + 1], failing, now)
         IN  /\ alarms' = acc.rows
             /\ wr' = [wr EXCEPT ![w] = [@ EXCEPT !.pos = @ + 1,
                                                  !.inserted = acc.inserted,
                                                  !.duplicates = acc.duplicates,
                                                  !.failed = acc.failed]]
    /\ UNCHANGED <<extVars, kind, now, schedVars, pc, wake, callVars, res, svcVars, authVars,
                   devices>>

\* insert_alarms_batch returns its counts.
BatchReturn(w) ==
    /\ wr[w].src \in {"cycle", "device"}
    /\ wr[w].pos = Len(wr[w].list)
    /\ wr' = [wr EXCEPT ![w] = IdleWriter]
    /\ UNCHANGED <<extVars, kind, now, schedVars, pc, wake, callVars, res, svcVars, authVars,
                   devices, alarms>>

\* insert_alarm() takes any payload, not only those the remote reports in a window.
DirectPayloads ==
    AlarmUniverse \cup
    [terid : Terids, gpstime : {1}, type : {5}, content : {"Overspeed"}, time : {1}]

\* A direct insert_alarm() call.
DirectInsert ==
    /\ \E a \in DirectPayloads, failing \in BOOLEAN :
         alarms' = insert_alarm(alarms, a, failing, now).rows
    /\ UNCHANGED <<extVars, kind, now, schedVars, pc, wake, callVars, res, svcVars, authVars,
                   devices, wr>>

\* _cleanup_old_alarms(), run by a sync cycle after its batch loop.
Cleanup ==
    /\ alarms' = cleanup_old_alarms(alarms, now)
    /\ UNCHANGED <<extVars, kind, now, schedVars, pc, wake, callVars, res, svcVars, authVars,
                   devices, wr>>

\* The retention period passes (once).
Age ==
    /\ now <= MaxNow
    /\ now' = now + DaysToKeep * 24 * 60 + 1
    /\ UNCHANGED <<extVars, kind, schedVars, pc, wake, callVars, res, svcVars, authVars,
                   storeVars>>

StoreInit ==
    /\ kind = "alarm"
    /\ now = 0
    /\ running = FALSE
    /\ stop_event = FALSE
    /\ scheduler_thread = NoThread
    /\ next_run_time = Never
    /\ pc = [t \in Threads |-> IF t \in Callers THEN "idle" ELSE "unborn"]
    /\ wake = [t \in Loops |-> 0]
    /\ op = [c \in Callers |-> "none"]
    /\ ret = [c \in Callers |-> "none"]
    /\ res = [t \in Threads |-> FALSE]
    /\ sync_lock = FALSE
    /\ sync_in_progress = FALSE
    /\ last_sync_time = Never
    /\ auth_key = 0
    /\ key_expires_at = 0
    /\ devices = DeviceRows(Terids)
    /\ alarms = <<>>
    /\ wr = [w \in Writers |-> IdleWriter]
    /\ gps = <<>>
    /\ out = <<>>
    /\ cl = IdleClient

StoreNext ==
    \/ \E w \in Writers :
         \/ BeginCycleInsert(w)
         \/ BeginDeviceInsert(w)
         \/ BatchStatement(w)
         \/ BatchReturn(w)
    \/ DirectInsert
    \/ Cleanup
    \/ Tick
    \/ Age

StoreSpec == StoreInit /\ [][StoreNext]_vars

(***************************************************************************)
(* The devices table under the store's and the device service's calls:     *)
(* upsert_device, upsert_devices_batch and whole device sync cycles, one   *)
(* call after another.                                                     *)
(***************************************************************************)
\* Scheduler, threads, service guard and store writers at rest.
IdleEngine ==
    /\ running = FALSE
    /\ stop_event = FALSE
    /\ scheduler_thread = NoThread
    /\ next_run_time = Never
    /\ pc = [t \in Threads |-> IF t \in Callers THEN "idle" ELSE "unborn"]
    /\ wake = [t \in Loops |-> 0]
    /\ op = [c \in Callers |-> "none"]
    /\ ret = [c \in Callers |-> "none"]
    /\ res = [t \in Threads |-> FALSE]
    /\ sync_lock = FALSE
    /\ sync_in_progress = FALSE
    /\ wr = [w \in Writers |-> IdleWriter]

engineVars == <<running, stop_event, scheduler_thread, next_run_time, pc, wake, op, ret,
                res, sync_lock, sync_in_progress, wr>>

\* Device payloads a caller can pass: the car licence may be absent or change.
DevicePayloads == [terid : Terids, carlicence : {"", "AB-1", "CD-2"}]

DeviceLists == UNION {[1..n -> DevicePayloads] : n \in 1..MaxAnswerLen}

\* upsert_device(device_data): the statements of one batch iteration; True unless
\* one of them raised.
upsert_device(rows, device, failing, t) ==
    [rows |-> UpsertRow([rows |-> rows, inserted |-> 0, updated |-> 0, failed |-> 0],
                        device, failing, t).rows,
     ok |-> ~failing]

NoDeviceCall ==
    [op |-> "none", seq |-> 0, list |-> <<>>, fails |-> {}, auth |-> FALSE, ok |-> FALSE,
     inserted |-> 0, updated |-> 0, failed |-> 0, result |-> FALSE, again |-> FALSE]

\* The call repeats the previous one: same payloads, and the previous call inserted
\* every one of them.
Repeats(list, fails) ==
    /\ out.op \in {"upsert_device", "upsert_devices_batch"}
    /\ out.list = list
    /\ out.fails = {} /\ fails = {}
    /\ out.inserted = Len(list)

DevUpsert ==
    /\ \E device \in DevicePayloads, failing \in BOOLEAN :
         LET r == upsert_device(devices, device, failing, now)
         IN  /\ devices' = r.rows
             /\ out' = [NoDeviceCall EXCEPT
                          !.op = "upsert_device", !.seq = 1 - out.seq,
                          !.list = <<device>>, !.fails = IF failing THEN {1} ELSE {},
                          !.result = r.ok,
                          !.again = Repeats(<<device>>, IF failing THEN {1} ELSE {})]
    /\ UNCHANGED <<kind, now, engineVars, last_sync_time, authVars, alarms, gps, cl>>

DevUpsertBatch ==
    /\ \E list \in DeviceLists, fails \in SUBSET (1..MaxAnswerLen) :
         /\ fails \subseteq 1..Len(list)
         /\ LET r == upsert_devices_batch(devices, list, fails, now)
            IN  /\ devices' = r.rows
                /\ out' = [NoDeviceCall EXCEPT
                             !.op = "upsert_devices_batch", !.seq = 1 - out.seq,
                             !.list = list, !.fails = fails,
                             !.inserted = r.inserted, !.updated = r.updated,
                             !.failed = r.failed, !.result = TRUE,
                             !.again = Repeats(list, fails)]
    /\ UNCHANGED <<kind, now, engineVars, last_sync_time, authVars, alarms, gps, cl>>

\* sync_devices(), its try block taken as one step.
DevSync ==
    /\ \E a \in Answers(DevicePayloads) :
         LET c == DeviceCycle(devices, Session, last_sync_time, a, now)
             r == upsert_devices_batch(devices, a.list, a.fails, now)
         IN  /\ devices' = c.rows
             /\ auth_key' = c.key
             /\ key_expires_at' = c.expires
             /\ last_sync_time' = c.last
             /\ out' = [NoDeviceCall EXCEPT
                          !.op = "sync_devices", !.seq = 1 - out.seq,
                          !.list = a.list, !.fails = a.fails,
                          !.auth = a.auth, !.ok = a.ok,
                          !.inserted = r.inserted, !.updated = r.updated,
                          !.failed = r.failed, !.result = c.result]
    /\ UNCHANGED <<kind, now, engineVars, alarms, gps, cl>>

DeviceInit ==
    /\ kind = "device"
    /\ now = 0
    /\ IdleEngine
    /\ last_sync_time = Never
    /\ auth_key = 0
    /\ key_expires_at = 0
    /\ devices = <<>>
    /\ alarms = <<>>
    /\ gps = <<>>
    /\ out = NoDeviceCall
    /\ cl = IdleClient

DeviceNext ==
    \/ DevUpsert
    \/ DevUpsertBatch
    \/ DevSync
    \/ Tick

DeviceSpec == DeviceInit /\ [][DeviceNext]_vars

(***************************************************************************)
(* GPS tracking service (heatmap/gps_tracking_service.py) and the gps      *)
(* table.  The service has no single-flight guard; one sync is followed    *)
(* position by position, with direct store_gps_data writes in between.     *)
(***************************************************************************)
MaxGpsLen == 2

\* A raw coordinate of a position payload: a number, or something float() rejects.
Coord(v) == [num |-> TRUE, val |-> v]
BadCoord == [num |-> FALSE, val |-> 0]
NoTerid == 0

\* Position payloads the last-position endpoint can report.
GpsPoints ==
    [terid : Terids, gpslat : {Coord(0), Coord(45), Coord(200)},
     gpslng : {Coord(0), Coord(90)}]
    \cup [terid : Terids, gpslat : {BadCoord}, gpslng : {Coord(90)}]
    \cup [terid : Terids, gpslat : {Coord(45)}, gpslng : {Coord(-181)}]
    \cup [terid : {NoTerid}, gpslat : {Coord(45)}, gpslng : {Coord(90)}]

\* get_last_gps_positions(device_ids): the no-data signal or a list of positions.
GpsAnswers ==
    [ok : {FALSE}, list : {<<>>}]
    \cup [ok : {TRUE}, list : UNION {[1..n -> GpsPoints] : n \in 0..MaxGpsLen}]

\* The gps table keeps one row per terid.
GpsKey(row) == row.terid

\* REPLACE INTO gps: rows in conflict with the new one are deleted, then it is inserted.
ReplaceInto_appends(rows, row) == Append(rows, row)

ReplaceInto(rows, row) ==
    Append(SelectRows(rows, {r \in Range(rows) : GpsKey(r) # GpsKey(row)}), row)

\* store_gps_data(...): True unless the statement raised.
store_gps_data(rows, row, failing) ==
    IF failing
    THEN [rows |-> rows, ok |-> FALSE]
    ELSE [rows |-> ReplaceInto(rows, row), ok |-> TRUE]

\* get_device_by_terid(terid)['car_license'], None (here "") for an unknown device.
CarLicenseOf(devs, terid) ==
    IF HasDevice(devs, terid)
    THEN devs[CHOOSE i \in 1..Len(devs) : devs[i].terid = terid].car_license
    ELSE ""

\* float(gps_point.get(...)) succeeded for both coordinates.
Parses(point) == point.gpslat.num /\ point.gpslng.num

\* The coordinate tests of _store_gps_data: not the zero/zero sentinel, within range.
ValidCoordinates_any(latitude, longitude) == TRUE

ValidCoordinates(latitude, longitude) ==
    /\ ~(latitude = 0 /\ longitude = 0)
    /\ -90 <= latitude /\ latitude <= 90
    /\ -180 <= longitude /\ longitude <= 180

GpsRow(point, devs, t) ==
    [terid |-> point.terid, car_license |-> CarLicenseOf(devs, point.terid),
     latitude |-> point.gpslat.val, longitude |-> point.gpslng.val, last_updated |-> t]

\* _store_gps_data(gps_point): the table afterwards, the value returned, and whether
\* the row reached the table.  The value of store_gps_data is not looked at.
StorePoint(rows, devs, point, failing, t) ==
    IF point.terid = NoTerid
    THEN [rows |-> rows, ret |-> FALSE, written |-> FALSE]
    ELSE IF ~Parses(point)
    THEN [rows |-> rows, ret |-> FALSE, written |-> FALSE]
    ELSE IF ~ValidCoordinates(point.gpslat.val, point.gpslng.val)
    THEN [rows |-> rows, ret |-> FALSE, written |-> FALSE]
    ELSE LET w == store_gps_data(rows, GpsRow(point, devs, t), failing)
         IN  [rows |-> w.rows, ret |-> TRUE, written |-> w.ok]

\* A GPS sync call: its position in sync_gps_data, the response it iterates over,
\* success_count, and (history) how many rows of this call reached the table and
\* the last row any call wrote.
NoGpsCall ==
    [pc |-> "idle", list |-> <<>>, pos |-> 0, success_count |-> 0, stored |-> 0,
     result |-> FALSE, wseq |-> 0, last_write |-> <<>>]

\* sync_gps_data() up to the loop: the devices are read and the positions fetched.
GpsBegin ==
    /\ out.pc = "idle"
    /\ IF devices = <<>>
       THEN out' = [out EXCEPT !.pc = "done", !.result = FALSE]
       ELSE \E a \in GpsAnswers :
              IF ~a.ok \/ a.list = <<>>
              THEN out' = [out EXCEPT !.pc = "done", !.result = FALSE]
              ELSE out' = [out EXCEPT !.pc = "loop", !.list = a.list]
    /\ UNCHANGED <<kind, now, engineVars, last_sync_time, authVars, devices, alarms, gps,
                   cl>>

\* One iteration of `for gps_point in gps_data`.
GpsStorePoint ==
    /\ out.pc = "loop"
    /\ out.pos < Len(out.list)
    /\ \E failing \in BOOLEAN :
         LET point == out.list[out.pos + 1]
             r == StorePoint(gps, devices, point, failing, now)
         IN  /\ gps' = r.rows
             /\ out' = [out EXCEPT
                          !.pos = @ + 1,
                          !.success_count = IF r.ret THEN @ + 1 ELSE @,
                          !.stored = IF r.written THEN @ + 1 ELSE @,
                          !.wseq = IF r.written THEN 1 - @ ELSE @,
                          !.last_write = IF r.written
                                         THEN <<GpsRow(point, devices, now)>> ELSE @]
    /\ UNCHANGED <<kind, now, engineVars, last_sync_time, authVars, devices, alarms, cl>>

\* `return success_count > 0`
GpsReturn ==
    /\ out.pc = "loop"
    /\ out.pos = Len(out.list)
    /\ out' = [out EXCEPT !.pc = "done", !.result = (out.success_count > 0)]
    /\ UNCHANGED <<kind, now, engineVars, last_sync_time, authVars, devices, alarms, gps,
                   cl>>

\* The caller takes the result; the next sync can begin.
GpsDone ==
    /\ out.pc = "done"
    /\ out' = [NoGpsCall EXCEPT !.wseq = out.wseq, !.last_write = out.last_write]
    /\ UNCHANGED <<kind, now, engineVars, last_sync_time, authVars, devices, alarms, gps,
                   cl>>

\* A direct store_gps_data() call: no validation at this level.
GpsWrite ==
    /\ \E terid \in Terids, latitude \in {0, 45}, longitude \in {0, 90} :
         LET row == [terid |-> terid, car_license |-> "", latitude |-> latitude,
                     longitude |-> longitude, last_updated |-> now]
         IN  /\ gps' = store_gps_data(gps, row, FALSE).rows
             /\ out' = [out EXCEPT !.wseq = 1 - @, !.last_write = <<row>>]
    /\ UNCHANGED <<kind, now, engineVars, last_sync_time, authVars, devices, alarms, cl>>

GpsInit ==
    /\ kind = "device"
    /\ now = 0
    /\ IdleEngine
    /\ last_sync_time = Never
    /\ auth_key = 0
    /\ key_expires_at = 0
    /\ devices \in {DeviceRows(S) : S \in SUBSET Terids}
    /\ alarms = <<>>
    /\ gps = <<>>
    /\ out = NoGpsCall
    /\ cl = IdleClient

GpsNext ==
    \/ GpsBegin
    \/ GpsStorePoint
    \/ GpsReturn
    \/ GpsDone
    \/ GpsWrite
    \/ Tick

GpsSpec == GpsInit /\ [][GpsNext]_vars

(***************************************************************************)
(* The three sync services and the retention cleanup over one store, each  *)
(* cycle taken as one step.                                                *)
(***************************************************************************)
\* The loop of sync_gps_data over the response; fails = positions whose store
\* statement raises.
RECURSIVE StoreFrom(_, _, _, _, _, _)
StoreFrom(acc, devs, list, i, fails, t) ==
    IF i > Len(list) THEN acc
    ELSE LET r == StorePoint(acc.rows, devs, list[i], i \in fails, t)
         IN  StoreFrom([rows |-> r.rows,
                        success_count |-> IF r.ret THEN acc.success_count + 1
                                          ELSE acc.success_count],
                       devs, list, i + 1, fails, t)

\* sync_gps_data(): the gps table afterwards and the value returned.
sync_gps_data(rows, devs, a, fails, t) ==
    LET acc == StoreFrom([rows |-> rows, success_count |-> 0], devs, a.list, 1, fails, t)
    IN  IF devs = <<>> \/ ~a.ok \/ a.list = <<>>
        THEN [rows |-> rows, result |-> FALSE]
        ELSE [rows |-> acc.rows, result |-> acc.success_count > 0]

\* Which operations have run, and whether a cleanup has deleted rows (history).
NoneRan == [ran |-> {}, deleted |-> FALSE]

EngDeviceSync ==
    /\ \E a \in Answers(FleetPayloads) :
         LET c == DeviceCycle(devices, Session, last_sync_time, a, now)
         IN  /\ devices' = c.rows
             /\ auth_key' = c.key
             /\ key_expires_at' = c.expires
    /\ out' = [out EXCEPT !.ran = @ \cup {"device"}]
    /\ UNCHANGED <<kind, now, engineVars, last_sync_time, alarms, gps, cl>>

EngAlarmSync ==
    /\ \E answers \in CycleAnswers(get_all_device_terids(devices), now) :
         LET c == AlarmCycle(alarms, devices, Session, last_sync_time, answers, now)
         IN  /\ alarms' = c.rows
             /\ auth_key' = c.key
             /\ key_expires_at' = c.expires
             /\ last_sync_time' = c.last
    /\ out' = [out EXCEPT !.ran = @ \cup {"alarm"}]
    /\ UNCHANGED <<kind, now, engineVars, devices, gps, cl>>

EngGpsSync ==
    /\ \E a \in GpsAnswers, fails \in SUBSET (1..MaxGpsLen) :
         /\ fails \subseteq 1..Len(a.list)
         /\ gps' = sync_gps_data(gps, devices, a, fails, now).rows
    /\ out' = [out EXCEPT !.ran = @ \cup {"gps"}]
    /\ UNCHANGED <<kind, now, engineVars, last_sync_time, authVars, devices, alarms, cl>>

EngCleanup ==
    /\ alarms' = cleanup_old_alarms(alarms, now)
    /\ out' = [out EXCEPT !.ran = @ \cup {"cleanup"},
                          !.deleted = @ \/ Len(alarms') < Len(alarms)]
    /\ UNCHANGED <<kind, now, engineVars, last_sync_time, authVars, devices, gps, cl>>

EngineInit ==
    /\ kind = "alarm"
    /\ now = 0
    /\ IdleEngine
    /\ last_sync_time = Never
    /\ auth_key = 0
    /\ key_expires_at = 0
    /\ devices = <<>>
    /\ alarms = <<>>
    /\ gps = <<>>
    /\ out = NoneRan
    /\ cl = IdleClient

EngineNext ==
    \/ EngDeviceSync
    \/ EngAlarmSync
    \/ EngGpsSync
    \/ EngCleanup
    \/ Tick
    \/ Age

EngineSpec == EngineInit /\ [][EngineNext]_vars

(***************************************************************************)
(* Bulk device syncs: sync_devices over fetched lists of up to             *)
(* MaxProcessed devices of which up to MaxFailed fail in the store.        *)
(***************************************************************************)
MaxProcessed == 100
MaxFailed == 11

\* A sync_devices call followed device by device: the fetched list, the positions
\* whose store statements raise, and the counts of upsert_devices_batch so far.
NoBulkCall ==
    [pc |-> "idle", list |-> <<>>, fails |-> {}, pos |-> 0, inserted |-> 0,
     updated |-> 0, failed |-> 0, result |-> FALSE]

\* get_devices() returns a list of n devices; the statements of the first f will raise.
BulkFetch ==
    /\ out.pc = "idle"
    /\ \E n \in 1..MaxProcessed, f \in 0..MaxFailed :
         /\ f <= n
         /\ out' = [NoBulkCall EXCEPT
                      !.pc = "loop",
                      !.list = [i \in 1..n |-> [terid |-> Min(Terids),
                                                carlicence |-> "AB-1"]],
                      !.fails = 1..f]
    /\ UNCHANGED <<kind, now, engineVars, last_sync_time, authVars, devices, alarms, gps,
                   cl>>

\* One iteration of the loop of upsert_devices_batch.
BulkUpsert ==
    /\ out.pc = "loop"
    /\ out.pos < Len(out.list)
    /\ LET acc == UpsertRow([rows |-> devices, inserted |-> out.inserted,
                             updated |-> out.updated, failed |-> out.failed],
                            out.list[out.pos + 1], (out.pos + 1) \in out.fails, now)
       IN  /\ devices' = acc.rows
           /\ out' = [out EXCEPT !.pos = @ + 1, !.inserted = acc.inserted,
                                 !.updated = acc.updated, !.failed = acc.failed]
    /\ UNCHANGED <<kind, now, engineVars, last_sync_time, authVars, alarms, gps, cl>>

\* The rest of sync_devices: the last sync time is set and the verdict returned.
BulkFinish ==
    /\ out.pc = "loop"
    /\ out.pos = Len(out.list)
    /\ last_sync_time' = now
    /\ out' = [out EXCEPT
                 !.pc = "done",
                 !.result = Tolerated(out.failed,
                                      out.inserted + out.updated + out.failed)]
    /\ UNCHANGED <<kind, now, engineVars, authVars, devices, alarms, gps, cl>>

\* The caller takes the result.
BulkReturn ==
    /\ out.pc = "done"
    /\ out' = NoBulkCall
    /\ UNCHANGED <<kind, now, engineVars, last_sync_time, authVars, devices, alarms, gps,
                   cl>>

BulkInit ==
    /\ kind = "device"
    /\ now = 0
    /\ IdleEngine
    /\ last_sync_time = Never
    /\ auth_key = 1
    /\ key_expires_at = KeyValidityMinutes
    /\ devices = <<>>
    /\ alarms = <<>>
    /\ gps = <<>>
    /\ out = NoBulkCall
    /\ cl = IdleClient

BulkNext ==
    \/ BulkFetch
    \/ BulkUpsert
    \/ BulkFinish
    \/ BulkReturn

BulkSpec == BulkInit /\ [][BulkNext]_vars

(***************************************************************************)
(* The API client's fetch operations (get_devices, get_alarm_details),     *)
(* request by request.                                                     *)
(***************************************************************************)
\* How an HTTP exchange ends: errorcode 200; another errorcode; a RequestException
\* (connection error, timeout, error status, retries exhausted); a body that is not
\* the expected JSON.
Outcomes == {"ok200", "app_error", "transport_error", "malformed"}

\* The lists the `data` member of a response can carry.
DataLists(fetch) ==
    IF fetch = "get_devices"
    THEN UNION {[1..n -> FleetPayloads] : n \in 0..MaxAnswerLen}
    ELSE UNION {[1..n -> AlarmUniverse] : n \in 0..MaxAnswerLen}

\* What get_devices / get_alarm_details return after the data request.
FetchResult_empty(outcome, list) == [ret |-> "list", list |-> IF outcome = "ok200" THEN list ELSE <<>>]

FetchResult(outcome, list) ==
    IF outcome = "ok200"
    THEN [ret |-> "list", list |-> list]
    ELSE [ret |-> "None", list |-> <<>>]

\* get_devices() / get_alarm_details(...) is called.
ClientCall ==
    /\ cl.pc = "idle"
    /\ \E fetch \in {"get_devices", "get_alarm_details"} :
         cl' = [IdleClient EXCEPT !.pc = "ensure", !.op = fetch]
    /\ UNCHANGED <<kind, now, engineVars, last_sync_time, authVars, storeVars, gps, out>>

\* _ensure_authenticated(): `if not self._is_key_valid()`
ClientEnsure ==
    /\ cl.pc = "ensure"
    /\ cl' = IF IsKeyValid(auth_key, key_expires_at, now)
             THEN [cl EXCEPT !.pc = "request", !.valid = TRUE]
             ELSE [cl EXCEPT !.pc = "auth"]
    /\ UNCHANGED <<kind, now, engineVars, last_sync_time, authVars, storeVars, gps, out>>

\* authenticate(); on failure the fetch operation returns None.
ClientAuth ==
    /\ cl.pc = "auth"
    /\ \E outcome \in Outcomes :
         LET au == authenticate(Session, outcome = "ok200", now)
         IN  /\ auth_key' = au.key
             /\ key_expires_at' = au.expires
             /\ cl' = IF au.ok
                      THEN [cl EXCEPT !.pc = "request", !.authed = TRUE]
                      ELSE [cl EXCEPT !.pc = "done", !.ret = "None"]
    /\ UNCHANGED <<kind, now, engineVars, last_sync_time, storeVars, gps, out>>

\* The data request is sent and answered.
ClientRequest ==
    /\ cl.pc = "request"
    /\ \E outcome \in Outcomes, list \in DataLists(cl.op) :
         /\ outcome # "ok200" => list = <<>>
         /\ cl' = [cl EXCEPT !.pc = "done", !.sent = TRUE, !.outcome = outcome,
                             !.ret = FetchResult(outcome, list).ret,
                             !.list = FetchResult(outcome, list).list]
    /\ UNCHANGED <<kind, now, engineVars, last_sync_time, authVars, storeVars, gps, out>>

\* The caller takes the value.
ClientReturn ==
    /\ cl.pc = "done"
    /\ cl' = IdleClient
    /\ UNCHANGED <<kind, now, engineVars, last_sync_time, authVars, storeVars, gps, out>>

\* Time passes until the cached token runs out.
Expire ==
    /\ now <= MaxNow
    /\ auth_key # 0
    /\ now < key_expires_at
    /\ now' = key_expires_at
    /\ UNCHANGED <<extVars, kind, engineVars, last_sync_time, authVars, storeVars>>

ClientInit ==
    /\ kind = "device"
    /\ now = 0
    /\ IdleEngine
    /\ last_sync_time = Never
    /\ auth_key = 0
    /\ key_expires_at = 0
    /\ devices = <<>>
    /\ alarms = <<>>
    /\ gps = <<>>
    /\ out = <<>>
    /\ cl = IdleClient

ClientNext ==
    \/ ClientCall
    \/ ClientEnsure
    \/ ClientAuth
    \/ ClientRequest
    \/ ClientReturn
    \/ Tick
    \/ Expire

ClientSpec == ClientInit /\ [][ClientNext]_vars

(***************************************************************************)
(* Concurrent GPS syncs: several threads call sync_gps_data() on one       *)
(* GPSTrackingService.  The method takes no lock and tests no flag.        *)
(***************************************************************************)
NumGpsCallers == 2

GpsThreads == 1..NumGpsCallers

\* The responses the concurrent calls are followed over: at most one position each.
RaceAnswers == {a \in GpsAnswers : Len(a.list) <= 1}

\* sync_gps_data() of thread c up to the loop: the devices are read and the
\* positions fetched.
RaceBegin(c) ==
    /\ out[c].pc = "idle"
    /\ IF devices = <<>>
       THEN out' = [out EXCEPT ![c] = [@ EXCEPT !.pc = "done", !.result = FALSE]]
       ELSE \E a \in RaceAnswers :
              IF ~a.ok \/ a.list = <<>>
              THEN out' = [out EXCEPT ![c] = [@ EXCEPT !.pc = "done", !.result = FALSE]]
              ELSE out' = [out EXCEPT ![c] = [@ EXCEPT !.pc = "loop", !.list = a.list]]
    /\ UNCHANGED <<kind, now, engineVars, last_sync_time, authVars, devices, alarms, gps,
                   cl>>

\* One iteration of `for gps_point in gps_data` in thread c.
RaceStorePoint(c) ==
    /\ out[c].pc = "loop"
    /\ out[c].pos < Len(out[c].list)
    /\ \E failing \in BOOLEAN :
         LET point == out[c].list[out[c].pos + 1]
             r == StorePoint(gps, devices, point, failing, now)
         IN  /\ gps' = r.rows
             /\ out' = [out EXCEPT ![c] =
                          [@ EXCEPT !.pos = @ + 1,
                                    !.success_count = IF r.ret THEN @ + 1 ELSE @,
                                    !.stored = IF r.written THEN @ + 1 ELSE @]]
    /\ UNCHANGED <<kind, now, engineVars, last_sync_time, authVars, devices, alarms, cl>>

\* `return success_count > 0`
RaceReturn(c) ==
    /\ out[c].pc = "loop"
    /\ out[c].pos = Len(out[c].list)
    /\ out' = [out EXCEPT ![c] = [@ EXCEPT !.pc = "done",
                                           !.result = (out[c].success_count > 0)]]
    /\ UNCHANGED <<kind, now, engineVars, last_sync_time, authVars, devices, alarms, gps,
                   cl>>

\* The caller takes the result.
RaceDone(c) ==
    /\ out[c].pc = "done"
    /\ out' = [out EXCEPT ![c] = NoGpsCall]
    /\ UNCHANGED <<kind, now, engineVars, last_sync_time, authVars, devices, alarms, gps,
                   cl>>

RaceInit ==
    /\ kind = "device"
    /\ now = 0
    /\ IdleEngine
    /\ last_sync_time = Never
    /\ auth_key = 0
    /\ key_expires_at = 0
    /\ devices \in {DeviceRows(S) : S \in SUBSET Terids}
    /\ alarms = <<>>
    /\ gps = <<>>
    /\ out = [c \in GpsThreads |-> NoGpsCall]
    /\ cl = IdleClient

RaceNext ==
    \E c \in GpsThreads :
        \/ RaceBegin(c)
        \/ RaceStorePoint(c)
        \/ RaceReturn(c)
        \/ RaceDone(c)

RaceSpec == RaceInit /\ [][RaceNext]_vars

(***************************************************************************)
(* The sync operations as their callers see them: the try / except /       *)
(* finally frame of sync_devices, sync_alarms and sync_gps_data, with      *)
(* exceptions thrown inside the cycle by the API client or by the store.   *)
(***************************************************************************)
Services == {"device", "alarm", "gps"}

\* Where an exception is thrown inside the try block, if anywhere.
Throwers == {"none", "api", "store"}

\* `except Exception as e: ... return False`
SyncOutcome_propagates(thrown, value) == [raised |-> thrown, value |-> value]

SyncOutcome(thrown, value) ==
    IF thrown
    THEN [raised |-> FALSE, value |-> FALSE]
    ELSE [raised |-> FALSE, value |-> value]

\* A call of a sync operation: the service, the position in its frame, what was
\* thrown inside the try block, and how the call ends (a value, or an exception).
NoSyncCall ==
    [pc |-> "idle", svc |-> "none", thrown |-> "none", raised |-> FALSE, result |-> FALSE]

frameVars == <<kind, running, stop_event, scheduler_thread, next_run_time, pc, wake, op,
               ret, res, wr, cl>>

\* The call passes the in-progress test, takes the lock and sets the flag (device and
\* alarm service), and enters the try block.
SvcCall ==
    /\ out.pc = "idle"
    /\ ~sync_in_progress
    /\ \E svc \in Services :
         /\ out' = [NoSyncCall EXCEPT !.pc = "try", !.svc = svc]
         /\ sync_lock' = (svc # "gps")
         /\ sync_in_progress' = (svc # "gps")
    /\ UNCHANGED <<frameVars, now, last_sync_time, authVars, devices, alarms, gps>>

\* The try block of sync_devices.
SvcTryDevice ==
    /\ out.pc = "try"
    /\ out.svc = "device"
    /\ \E a \in Answers(FleetPayloads), thrown \in Throwers :
         LET c == DeviceCycle(devices, Session, last_sync_time, a, now)
             o == SyncOutcome(thrown # "none", c.result)
         IN  /\ devices' = IF thrown = "none" THEN c.rows ELSE devices
             /\ last_sync_time' = IF thrown = "none" THEN c.last ELSE last_sync_time
             /\ auth_key' = IF thrown = "api" THEN auth_key ELSE c.key
             /\ key_expires_at' = IF thrown = "api" THEN key_expires_at ELSE c.expires
             /\ out' = [out EXCEPT !.pc = "finally", !.thrown = thrown,
                                   !.raised = o.raised, !.result = o.value]
    /\ UNCHANGED <<frameVars, now, sync_lock, sync_in_progress, alarms, gps>>

\* The try block of sync_alarms.
SvcTryAlarm ==
    /\ out.pc = "try"
    /\ out.svc = "alarm"
    /\ \E answers \in CycleAnswers(get_all_device_terids(devices), now),
          thrown \in Throwers :
         LET c == AlarmCycle(alarms, devices, Session, last_sync_time, answers, now)
             o == SyncOutcome(thrown # "none", c.result)
         IN  /\ alarms' = IF thrown = "none" THEN c.rows ELSE alarms
             /\ last_sync_time' = IF thrown = "none" THEN c.last ELSE last_sync_time
             /\ auth_key' = IF thrown = "api" THEN auth_key ELSE c.key
             /\ key_expires_at' = IF thrown = "api" THEN key_expires_at ELSE c.expires
             /\ out' = [out EXCEPT !.pc = "finally", !.thrown = thrown,
                                   !.raised = o.raised, !.result = o.value]
    /\ UNCHANGED <<frameVars, now, sync_lock, sync_in_progress, devices, gps>>

\* The try block of sync_gps_data; the method has no finally clause.
SvcTryGps ==
    /\ out.pc = "try"
    /\ out.svc = "gps"
    /\ \E a \in RaceAnswers, fails \in SUBSET (1..MaxGpsLen), thrown \in Throwers :
         /\ fails \subseteq 1..Len(a.list)
         /\ LET c == sync_gps_data(gps, devices, a, fails, now)
                o == SyncOutcome(thrown # "none", c.result)
            IN  /\ gps' = IF thrown = "none" THEN c.rows ELSE gps
                /\ out' = [out EXCEPT !.pc = "done", !.thrown = thrown,
                                      !.raised = o.raised, !.result = o.value]
    /\ UNCHANGED <<frameVars, now, svcVars, authVars, devices, alarms>>

\* `finally: self._sync_in_progress = False`, and the with block releases the lock.
SvcFinally ==
    /\ out.pc = "finally"
    /\ sync_in_progress' = FALSE
    /\ sync_lock' = FALSE
    /\ out' = [out EXCEPT !.pc = "done"]
    /\ UNCHANGED <<frameVars, now, last_sync_time, authVars, devices, alarms, gps>>

\* The caller has the outcome; the next call can be made.
SvcReturn ==
    /\ out.pc = "done"
    /\ out' = NoSyncCall
    /\ UNCHANGED <<frameVars, now, svcVars, authVars, devices, alarms, gps>>

FrameInit ==
    /\ kind \in {"device", "alarm"}
    /\ now = 0
    /\ IdleEngine
    /\ last_sync_time = Never
    /\ auth_key = 0
    /\ key_expires_at = 0
    /\ devices \in {DeviceRows(S) : S \in SUBSET Terids}
    /\ alarms = <<>>
    /\ gps = <<>>
    /\ out = NoSyncCall
    /\ cl = IdleClient

FrameNext ==
    \/ SvcCall
    \/ SvcTryDevice
    \/ SvcTryAlarm
    \/ SvcTryGps
    \/ SvcFinally
    \/ SvcReturn
    \/ Tick

FrameSpec == FrameInit /\ [][FrameNext]_vars

(***************************************************************************)
(* One API client used by several threads: fetch operations and direct     *)
(* authenticate() calls, statement by statement.  The client has no lock;  *)
(* authenticate() stores the token and then, in a second statement, its    *)
(* expiry.                                                                 *)
(***************************************************************************)
NumClientThreads == 2
MaxTokens == 3

ClientThreads == 1..NumClientThreads

\* A client call of one thread: its position and the token its login was given.
IdleClientThread == [pc |-> "idle", token |-> 0]

\* Tokens the remote has issued so far, and (history) the token whose authentication
\* wrote the stored expiry.
NoTokens == [issued |-> 0, exp_of |-> 0]

\* A fetch operation (it begins with _ensure_authenticated) or authenticate() itself
\* (validate_api_connection) is called.
TokCall(t) ==
    /\ cl[t].pc = "idle"
    /\ \E entry \in {"ensure", "login"} :
         cl' = [cl EXCEPT ![t] = [IdleClientThread EXCEPT !.pc = entry]]
    /\ UNCHANGED <<kind, now, engineVars, last_sync_time, authVars, devices, alarms, gps,
                   out>>

\* `if not self._is_key_valid(): return self.authenticate()`
TokEnsure(t) ==
    /\ cl[t].pc = "ensure"
    /\ cl' = [cl EXCEPT ![t] = [@ EXCEPT !.pc = IF IsKeyValid(auth_key, key_expires_at, now)
                                                THEN "done" ELSE "login"]]
    /\ UNCHANGED <<kind, now, engineVars, last_sync_time, authVars, devices, alarms, gps,
                   out>>

\* authenticate(): the login request is answered; errorcode 200 carries a new token.
TokLogin(t) ==
    /\ cl[t].pc = "login"
    /\ \/ /\ out.issued < MaxTokens
          /\ out' = [out EXCEPT !.issued = @ + 1]
          /\ cl' = [cl EXCEPT ![t] = [pc |-> "set_key", token |-> out.issued + 1]]
       \/ /\ out' = out
          /\ cl' = [cl EXCEPT ![t] = [@ EXCEPT !.pc = "done"]]
    /\ UNCHANGED <<kind, now, engineVars, last_sync_time, authVars, devices, alarms, gps>>

\* `self._auth_key = data.get('data', {}).get('key')`
TokSetKey(t) ==
    /\ cl[t].pc = "set_key"
    /\ auth_key' = cl[t].token
    /\ cl' = [cl EXCEPT ![t] = [@ EXCEPT !.pc = "set_expiry"]]
    /\ UNCHANGED <<kind, now, engineVars, last_sync_time, key_expires_at, devices, alarms,
                   gps, out>>

\* `self._key_expires_at = time.time() + (50 * 60)`
TokSetExpiry(t) ==
    /\ cl[t].pc = "set_expiry"
    /\ key_expires_at' = now + KeyValidityMinutes
    /\ out' = [out EXCEPT !.exp_of = cl[t].token]
    /\ cl' = [cl EXCEPT ![t] = [@ EXCEPT !.pc = "done"]]
    /\ UNCHANGED <<kind, now, engineVars, last_sync_time, auth_key, devices, alarms, gps>>

\* The call returns.
TokReturn(t) ==
    /\ cl[t].pc = "done"
    /\ cl' = [cl EXCEPT ![t] = IdleClientThread]
    /\ UNCHANGED <<kind, now, engineVars, last_sync_time, authVars, devices, alarms, gps,
                   out>>

TokenInit ==
    /\ kind = "device"
    /\ now = 0
    /\ IdleEngine
    /\ last_sync_time = Never
    /\ auth_key = 0
    /\ key_expires_at = 0
    /\ devices = <<>>
    /\ alarms = <<>>
    /\ gps = <<>>
    /\ out = NoTokens
    /\ cl = [t \in ClientThreads |-> IdleClientThread]

TokenNext ==
    \/ \E t \in ClientThreads :
         \/ TokCall(t)
         \/ TokEnsure(t)
         \/ TokLogin(t)
         \/ TokSetKey(t)
         \/ TokSetExpiry(t)
         \/ TokReturn(t)
    \/ Tick
    \/ Expire

TokenSpec == TokenInit /\ [][TokenNext]_vars

(***************************************************************************)
(* One alarm sync cycle followed batch by batch, over fleets of up to      *)
(* MaxFleet devices and batch sizes of up to MaxBatchSize, the remote      *)
(* reporting up to MaxCycleAlarms alarms in the cycle.                     *)
(***************************************************************************)
MaxFleet == 11
MaxBatchSize == 3
MaxCycleAlarms == 2

BatchAt_overlong(terids, i, size) ==
    SubSeq(terids, i + 1, IF i + size + 1 < Len(terids) THEN i + size + 1 ELSE Len(terids))

\* `device_terids[i:i + self.batch_size]`, i counted from 0.
BatchAt(terids, i, size) ==
    SubSeq(terids, i + 1, IF i + size < Len(terids) THEN i + size ELSE Len(terids))

\* What get_alarm_details and the store can do to one batch: the fetch fails, the
\* answer is empty, or it holds one alarm of the batch's first device, whose insert
\* succeeds or raises.
BatchAnswers(batch, t) ==
    LET alarm == [terid |-> batch[1], gpstime |-> t, type |-> 4, content |-> "IO alarm",
                  time |-> 1]
    IN  {[auth |-> TRUE, ok |-> FALSE, list |-> <<>>, fails |-> {}],
         [auth |-> TRUE, ok |-> TRUE, list |-> <<>>, fails |-> {}],
         [auth |-> TRUE, ok |-> TRUE, list |-> <<alarm>>, fails |-> {}],
         [auth |-> TRUE, ok |-> TRUE, list |-> <<alarm>>, fails |-> {1}]}

\* A sync_alarms call: the configured batch size, the device list read at the start,
\* the loop offset, the counters, and (history) the batches queried so far in order,
\* the device counts of the batches whose fetch failed and the inserts that raised.
NoCycle ==
    [pc |-> "idle", batch_size |-> 1, terids |-> <<>>, i |-> 0, total_alarms |-> 0,
     total_inserted |-> 0, total_failed |-> 0, result |-> FALSE, queried |-> <<>>,
     fetch_failed |-> 0, insert_failed |-> 0]

\* sync_alarms() up to the loop: the known devices are read.
CycBegin ==
    /\ out.pc = "idle"
    /\ LET terids == get_all_device_terids(devices)
       IN  out' = IF terids = <<>>
                  THEN [out EXCEPT !.pc = "done", !.result = TRUE]
                  ELSE [out EXCEPT !.pc = "loop", !.terids = terids]
    /\ UNCHANGED <<kind, now, engineVars, last_sync_time, authVars, devices, alarms, gps,
                   cl>>

\* One iteration of `for i in range(0, len(device_terids), self.batch_size)`.
CycBatch ==
    /\ out.pc = "loop"
    /\ out.i < Len(out.terids)
    /\ LET batch == BatchAt(out.terids, out.i, out.batch_size)
       IN  \E a \in BatchAnswers(batch, now) :
             LET acc == BatchStep([rows |-> alarms, key |-> auth_key,
                                   expires |-> key_expires_at,
                                   total_alarms |-> out.total_alarms,
                                   total_inserted |-> out.total_inserted,
                                   total_failed |-> out.total_failed],
                                  batch, a, now)
             IN  /\ out.total_alarms + Len(a.list) <= MaxCycleAlarms
                 /\ alarms' = acc.rows
                 /\ auth_key' = acc.key
                 /\ key_expires_at' = acc.expires
                 /\ out' = [out EXCEPT
                              !.i = @ + out.batch_size,
                              !.total_alarms = acc.total_alarms,
                              !.total_inserted = acc.total_inserted,
                              !.total_failed = acc.total_failed,
                              !.queried = Append(@, batch),
                              !.fetch_failed = IF a.ok THEN @ ELSE @ + Len(batch),
                              !.insert_failed = IF a.ok THEN @ + Cardinality(a.fails)
                                                ELSE @]
    /\ UNCHANGED <<kind, now, engineVars, last_sync_time, devices, gps, cl>>

\* After the loop: the last sync time, the retention cleanup, the verdict.
CycFinish ==
    /\ out.pc = "loop"
    /\ out.i >= Len(out.terids)
    /\ last_sync_time' = now
    /\ alarms' = IF CleanupDue(now, now) THEN cleanup_old_alarms(alarms, now) ELSE alarms
    /\ out' = [out EXCEPT !.pc = "done",
                          !.result = Tolerated(out.total_failed, Len(out.terids))]
    /\ UNCHANGED <<kind, now, engineVars, authVars, devices, gps, cl>>

\* The caller takes the result.
CycReturn ==
    /\ out.pc = "done"
    /\ out' = [out EXCEPT !.pc = "returned"]
    /\ UNCHANGED <<kind, now, engineVars, last_sync_time, authVars, devices, alarms, gps,
                   cl>>

CycleInit ==
    /\ kind = "alarm"
    /\ now = 0
    /\ IdleEngine
    /\ last_sync_time = Never
    /\ auth_key = 1
    /\ key_expires_at = KeyValidityMinutes
    /\ devices \in {DeviceRows(1..n) : n \in 0..MaxFleet}
    /\ alarms = <<>>
    /\ gps = <<>>
    /\ out \in {[NoCycle EXCEPT !.batch_size = size] : size \in 1..MaxBatchSize}
    /\ cl = IdleClient

CycleNext ==
    \/ CycBegin
    \/ CycBatch
    \/ CycFinish
    \/ CycReturn

CycleSpec == CycleInit /\ [][CycleNext]_vars

(***************************************************************************)
(* The query windows of consecutive scheduled alarm syncs: the loop of     *)
(* AlarmSyncScheduler with its interval wait, and the window sync_alarms   *)
(* computes when its cycle begins.  Time passes during waits and syncs.    *)
(***************************************************************************)
MaxInterval == 2
MaxLookback == 3
MaxClock == 8

NoWindow == <<>>

\* The loop thread: the configured interval and lookback, its position, the end of
\* its wait, and (history) the windows of its last two cycles.
NoSchedule ==
    [pc |-> "top", interval |-> 1, lookback |-> 1, wake |-> 0, window |-> NoWindow,
     previous |-> NoWindow]

\* `end_time = datetime.now(); start_time_query = end_time - timedelta(minutes=...)`
QueryWindow(t, lookback) == [start |-> t - lookback, end |-> t]

\* Top of the loop: `self._stop_event.wait(timeout=self.update_interval_minutes * 60)`
\* begins.
WinTop ==
    /\ out.pc = "top"
    /\ out' = [out EXCEPT !.pc = "wait", !.wake = now + out.interval]
    /\ next_run_time' = now + out.interval
    /\ UNCHANGED <<kind, now, running, stop_event, scheduler_thread, pc, wake, op, ret,
                   res, svcVars, authVars, storeVars, gps, cl>>

\* The wait times out; sync_alarms() is called.
WinWait ==
    /\ out.pc = "wait"
    /\ now >= out.wake
    /\ out' = [out EXCEPT !.pc = "call"]
    /\ UNCHANGED <<kind, now, engineVars, last_sync_time, authVars, devices, alarms, gps,
                   cl>>

\* sync_alarms() computes the window of its cycle.
WinSyncBegin ==
    /\ out.pc = "call"
    /\ out' = [out EXCEPT !.pc = "body", !.previous = out.window,
                          !.window = QueryWindow(now, out.lookback)]
    /\ UNCHANGED <<kind, now, engineVars, last_sync_time, authVars, devices, alarms, gps,
                   cl>>

\* The cycle ends and sync_alarms() returns to the loop.
WinSyncEnd ==
    /\ out.pc = "body"
    /\ out' = [out EXCEPT !.pc = "top"]
    /\ last_sync_time' = now
    /\ UNCHANGED <<kind, now, engineVars, authVars, devices, alarms, gps, cl>>

\* A minute passes, in the interval wait or while the cycle runs (remote calls, the
\* pauses between batches, store writes).
Pass ==
    /\ now < MaxClock
    /\ \/ out.pc = "body"
       \/ out.pc = "wait" /\ now < out.wake
    /\ now' = now + 1
    /\ UNCHANGED <<extVars, kind, engineVars, last_sync_time, authVars, devices, alarms>>

WindowInit ==
    /\ kind = "alarm"
    /\ now = 0
    /\ IdleEngine
    /\ last_sync_time = Never
    /\ auth_key = 0
    /\ key_expires_at = 0
    /\ devices = DeviceRows(Terids)
    /\ alarms = <<>>
    /\ gps = <<>>
    /\ out \in {[NoSchedule EXCEPT !.interval = i, !.lookback = l] :
                  i \in 1..MaxInterval, l \in 1..MaxLookback}
    /\ cl = IdleClient

WindowNext ==
    \/ WinTop
    \/ WinWait
    \/ WinSyncBegin
    \/ WinSyncEnd
    \/ Pass

WindowSpec == WindowInit /\ [][WindowNext]_vars

(***************************************************************************)
(* The retention cleanup over consecutive completed alarm sync cycles: the *)
(* statements of sync_alarms after its batch loop, cycle after cycle, with *)
(* time passing in between.                                                *)
(***************************************************************************)
MaxRetentionClock == 12
MaxRetentionCycles == 3

\* (history) completed cycles, the cleanups they triggered, when the last two of
\* them ran, and whether the last completed cycle triggered one.
NoRetention ==
    [cycles |-> 0, cleanups |-> 0, cleaned_at |-> Never, previous |-> Never,
     triggered |-> FALSE]

\* A cycle over a non-empty device list completes: `self._last_sync_time =
\* datetime.now()`, then the cleanup condition, which reads the clock again (the same
\* minute or the next one), then _cleanup_old_alarms().
RetCycle ==
    /\ out.cycles < MaxRetentionCycles
    /\ last_sync_time' = now
    /\ \E later \in {now, now + 1} :
         LET due == CleanupDue(now, later)
         IN  /\ alarms' = IF due THEN cleanup_old_alarms(alarms, now) ELSE alarms
             /\ out' = [cycles |-> out.cycles + 1,
                        cleanups |-> IF due THEN out.cleanups + 1 ELSE out.cleanups,
                        cleaned_at |-> IF due THEN now ELSE out.cleaned_at,
                        previous |-> IF due THEN out.cleaned_at ELSE out.previous,
                        triggered |-> due]
    /\ UNCHANGED <<kind, now, engineVars, authVars, devices, gps, cl>>

\* A minute passes between cycles.
RetPass ==
    /\ now < MaxRetentionClock
    /\ now' = now + 1
    /\ UNCHANGED <<extVars, kind, engineVars, last_sync_time, authVars, devices, alarms>>

RetentionInit ==
    /\ kind = "alarm"
    /\ now = 0
    /\ IdleEngine
    /\ last_sync_time = Never
    /\ auth_key = 0
    /\ key_expires_at = 0
    /\ devices = DeviceRows(Terids)
    /\ alarms = <<>>
    /\ gps = <<>>
    /\ out = NoRetention
    /\ cl = IdleClient

RetentionNext ==
    \/ RetCycle
    \/ RetPass

RetentionSpec == RetentionInit /\ [][RetentionNext]_vars

(***************************************************************************)
(* One API client used by one thread: authenticate() and the fetch         *)
(* operations called one after another, the login answer carrying a key,   *)
(* an empty key or none, and time passing in between.                      *)
(***************************************************************************)
MaxSessionTokens == 2

\* `_auth_key` holding the empty string (0 stands for None, n > 0 for the n-th token).
EmptyKey == -1

\* The `key` member of a login answer: a fresh token, absent, or the empty string.
KeyFields == {"token", "missing", "empty"}

\* `data.get('data', {}).get('key')`
ResponseKey(field, fresh) ==
    IF field = "token" THEN fresh ELSE IF field = "empty" THEN EmptyKey ELSE 0

AuthenticateWith_clears(sess, outcome, key, t) ==
    IF outcome = "ok200"
    THEN [key |-> key, expires |-> t + KeyValidityMinutes, ok |-> TRUE]
    ELSE [key |-> 0, expires |-> 0, ok |-> FALSE]

\* authenticate() on a login exchange that ended with outcome and carried key.
AuthenticateWith(sess, outcome, key, t) ==
    IF outcome = "ok200"
    THEN [key |-> key, expires |-> t + KeyValidityMinutes, ok |-> TRUE]
    ELSE [key |-> sess.key, expires |-> sess.expires, ok |-> FALSE]

\* A call on the client: the operation, its position, the value returned, and
\* (history) the session it found, when it tested the token, the login and data
\* requests it has sent, the key member of the login answer and the key the data
\* request carried.
NoSessionCall ==
    [pc |-> "idle", op |-> "none", ret |-> "none", found_key |-> 0, found_expires |-> 0,
     checked_at |-> Never, auths |-> 0, requests |-> 0, field |-> "none", carried |-> 0]

\* (history) tokens issued so far and the call that returned last.
NoSession == [issued |-> 0, previous |-> NoSessionCall]

\* authenticate(), get_devices() or get_alarm_details(...) is called.
SessCall ==
    /\ cl.pc = "idle"
    /\ \E o \in {"authenticate", "get_devices", "get_alarm_details"} :
         cl' = [NoSessionCall EXCEPT !.pc = IF o = "authenticate" THEN "auth" ELSE "ensure",
                                     !.op = o, !.found_key = auth_key,
                                     !.found_expires = key_expires_at]
    /\ UNCHANGED <<kind, now, engineVars, last_sync_time, authVars, devices, alarms, gps,
                   out>>

\* _ensure_authenticated(): `if not self._is_key_valid()`
SessEnsure ==
    /\ cl.pc = "ensure"
    /\ cl' = [cl EXCEPT !.pc = IF IsKeyValid(auth_key, key_expires_at, now)
                                THEN "request" ELSE "auth",
                        !.checked_at = now]
    /\ UNCHANGED <<kind, now, engineVars, last_sync_time, authVars, devices, alarms, gps,
                   out>>

\* authenticate(): the login request and what the method does with the answer.
SessAuth ==
    /\ cl.pc = "auth"
    /\ out.issued < MaxSessionTokens
    /\ \E outcome \in Outcomes, field \in KeyFields :
         LET au == AuthenticateWith(Session, outcome,
                                    ResponseKey(field, out.issued + 1), now)
         IN  /\ outcome # "ok200" => field = "missing"
             /\ auth_key' = au.key
             /\ key_expires_at' = au.expires
             /\ out' = [out EXCEPT !.issued = IF au.ok /\ field = "token" THEN @ + 1
                                              ELSE @]
             /\ cl' = [cl EXCEPT
                         !.auths = @ + 1,
                         !.field = field,
                         !.pc = IF cl.op # "authenticate" /\ au.ok THEN "request"
                                ELSE "done",
                         !.ret = IF cl.op = "authenticate"
                                 THEN (IF au.ok THEN "True" ELSE "False")
                                 ELSE (IF au.ok THEN "none" ELSE "None")]
    /\ UNCHANGED <<kind, now, engineVars, last_sync_time, devices, alarms, gps>>

\* The data request is sent with `self._auth_key` and answered.
SessRequest ==
    /\ cl.pc = "request"
    /\ \E outcome \in Outcomes :
         cl' = [cl EXCEPT !.pc = "done", !.requests = @ + 1, !.carried = auth_key,
                          !.ret = FetchResult(outcome, <<>>).ret]
    /\ UNCHANGED <<kind, now, engineVars, last_sync_time, authVars, devices, alarms, gps,
                   out>>

\* The caller takes the value.
SessReturn ==
    /\ cl.pc = "done"
    /\ out' = [out EXCEPT !.previous = cl]
    /\ cl' = NoSessionCall
    /\ UNCHANGED <<kind, now, engineVars, last_sync_time, authVars, devices, alarms, gps>>

SessionInit ==
    /\ kind = "device"
    /\ now = 0
    /\ IdleEngine
    /\ last_sync_time = Never
    /\ auth_key = 0
    /\ key_expires_at = 0
    /\ devices = <<>>
    /\ alarms = <<>>
    /\ gps = <<>>
    /\ out = NoSession
    /\ cl = NoSessionCall

SessionNext ==
    \/ SessCall
    \/ SessEnsure
    \/ SessAuth
    \/ SessRequest
    \/ SessReturn
    \/ Tick
    \/ Expire

SessionSpec == SessionInit /\ [][SessionNext]_vars

(***************************************************************************)
(* The Device and the Alarm scheduler side by side, as                     *)
(* BrigadeElectronicsApp.start() creates them: each scheduler has its own  *)
(* loop thread and its own service object, each service its own lock and   *)
(* in-progress flag.  A sync body lasts as long as its remote calls take.  *)
(***************************************************************************)
MaxSystemClock == 4
DeviceIntervalSteps == 2
AlarmIntervalSteps == 1
MaxCompleted == 2

SyncServices == {"device", "alarm"}

\* `self.update_interval_minutes` of the service's scheduler.
IntervalOf(s) == IF s = "device" THEN DeviceIntervalSteps ELSE AlarmIntervalSteps

GuardOf_shared(s) == "device"

\* The lock and flag a service's sync tests: `self._sync_lock`, `self._sync_in_progress`
\* of its own instance.
GuardOf(s) == s

\* A scheduler's loop thread: its position, the end of its wait, the scheduler's next
\* run time, and (history) the syncs it has completed and skipped.
NoService ==
    [pc |-> "top", wake |-> 0, next_run |-> Never, completed |-> 0, skipped |-> 0]

FreeGuard == [lock |-> FALSE, flag |-> FALSE]

NoSystem ==
    [svc |-> [s \in SyncServices |-> NoService],
     guard |-> [s \in SyncServices |-> FreeGuard]]

\* Top of the while loop: the next run time is computed and the wait begins.
SysTop(s) ==
    /\ out.svc[s].pc = "top"
    /\ out' = [out EXCEPT !.svc[s].pc = "wait",
                          !.svc[s].wake = now + IntervalOf(s),
                          !.svc[s].next_run = now + IntervalOf(s)]
    /\ UNCHANGED <<kind, now, engineVars, last_sync_time, authVars, devices, alarms, gps,
                   cl>>

\* The wait times out and the loop calls the sync operation.
SysWait(s) ==
    /\ out.svc[s].pc = "wait"
    /\ now >= out.svc[s].wake
    /\ out' = [out EXCEPT !.svc[s].pc = "enter"]
    /\ UNCHANGED <<kind, now, engineVars, last_sync_time, authVars, devices, alarms, gps,
                   cl>>

\* `if self._sync_in_progress: return False`
SysEnter(s) ==
    /\ out.svc[s].pc = "enter"
    /\ out' = IF out.guard[GuardOf(s)].flag
              THEN [out EXCEPT !.svc[s].pc = "top", !.svc[s].skipped = 1]
              ELSE [out EXCEPT !.svc[s].pc = "acquire"]
    /\ UNCHANGED <<kind, now, engineVars, last_sync_time, authVars, devices, alarms, gps,
                   cl>>

\* `with self._sync_lock: self._sync_in_progress = True`
SysAcquire(s) ==
    /\ out.svc[s].pc = "acquire"
    /\ ~out.guard[GuardOf(s)].lock
    /\ out' = [out EXCEPT !.svc[s].pc = "body",
                          !.guard[GuardOf(s)] = [lock |-> TRUE, flag |-> TRUE]]
    /\ UNCHANGED <<kind, now, engineVars, last_sync_time, authVars, devices, alarms, gps,
                   cl>>

\* The try block ends: the remote calls have answered and the rows are written.
SysBody(s) ==
    /\ out.svc[s].pc = "body"
    /\ out.svc[s].completed < MaxCompleted
    /\ out' = [out EXCEPT !.svc[s].pc = "finally", !.svc[s].completed = @ + 1]
    /\ UNCHANGED <<kind, now, engineVars, last_sync_time, authVars, devices, alarms, gps,
                   cl>>

\* `finally: self._sync_in_progress = False`, the lock is released, sync() returns.
SysFinally(s) ==
    /\ out.svc[s].pc = "finally"
    /\ out' = [out EXCEPT !.svc[s].pc = "top", !.guard[GuardOf(s)] = FreeGuard]
    /\ UNCHANGED <<kind, now, engineVars, last_sync_time, authVars, devices, alarms, gps,
                   cl>>

\* Time passes.
SysPass ==
    /\ now < MaxSystemClock
    /\ now' = now + 1
    /\ UNCHANGED <<extVars, kind, engineVars, last_sync_time, authVars, devices, alarms>>

SystemInit ==
    /\ kind = "device"
    /\ now = 0
    /\ IdleEngine
    /\ last_sync_time = Never
    /\ auth_key = 0
    /\ key_expires_at = 0
    /\ devices = <<>>
    /\ alarms = <<>>
    /\ gps = <<>>
    /\ out = NoSystem
    /\ cl = IdleClient

SystemNext ==
    \/ \E s \in SyncServices :
         \/ SysTop(s)
         \/ SysWait(s)
         \/ SysEnter(s)
         \/ SysAcquire(s)
         \/ SysBody(s)
         \/ SysFinally(s)
    \/ SysPass

SystemSpec == SystemInit /\ [][SystemNext]_vars

(***************************************************************************)
(* The single-device alarm sync, AlarmSyncService.sync_alarms_for_device,  *)
(* call after call: answers of up to MaxAdhocLen alarms, inserts that      *)
(* raise, and exceptions thrown inside the try block.                      *)
(***************************************************************************)
MaxAdhocLen == 11

\* What the remote and the store can do to one call: the login and the fetch succeed
\* or not, the answer holds no alarm, one, or MaxAdhocLen reports of one alarm, and
\* the insert of the first or of the last of them raises.
AdhocAnswers ==
    {a \in [auth : BOOLEAN, ok : BOOLEAN,
            list : {[i \in 1..n |-> x] : n \in {0, 1, MaxAdhocLen}, x \in AlarmUniverse},
            fails : {{}, {1}, {MaxAdhocLen}}] :
        /\ a.fails \subseteq 1..Len(a.list)
        /\ (~a.auth \/ ~a.ok) => a.list = <<>>
        /\ ~a.auth => ~a.ok}

sync_alarms_for_device_tolerant(rows, sess, a, thrown, t) ==
    LET au == EnsureAuthenticated(sess, a.auth, t)
        fetched == au.ok /\ a.ok
        r == insert_alarms_batch(rows, a.list, a.fails, t)
        value == IF ~fetched THEN FALSE
                 ELSE IF a.list = <<>> THEN TRUE
                 ELSE Tolerated(r.failed, Len(a.list))
        o == SyncOutcome(thrown # "none", value)
    IN  [rows |-> IF thrown = "none" /\ fetched THEN r.rows ELSE rows,
         key |-> IF thrown = "api" THEN sess.key ELSE au.key,
         expires |-> IF thrown = "api" THEN sess.expires ELSE au.expires,
         raised |-> o.raised, result |-> o.value]

\* sync_alarms_for_device(terid): the alarms table and the session afterwards, and
\* how the call ends; thrown = what threw inside the try block.
sync_alarms_for_device(rows, sess, a, thrown, t) ==
    LET au == EnsureAuthenticated(sess, a.auth, t)
        fetched == au.ok /\ a.ok       \* get_alarm_details_for_device() is not None
        r == insert_alarms_batch(rows, a.list, a.fails, t)
        value == IF ~fetched THEN FALSE
                 ELSE IF a.list = <<>> THEN TRUE
                 ELSE r.failed = 0
        o == SyncOutcome(thrown # "none", value)
    IN  [rows |-> IF thrown = "none" /\ fetched THEN r.rows ELSE rows,
         key |-> IF thrown = "api" THEN sess.key ELSE au.key,
         expires |-> IF thrown = "api" THEN sess.expires ELSE au.expires,
         raised |-> o.raised, result |-> o.value]

\* A call: the device, the position, and (history) whether the fetch succeeded, the
\* alarms it returned, the inserts that raised, what threw, and how the call ended.
NoAdhocCall ==
    [pc |-> "idle", terid |-> NoTerid, fetched |-> FALSE, found |-> 0, failed |-> 0,
     thrown |-> "none", raised |-> FALSE, result |-> FALSE, rows_before |-> <<>>]

\* sync_alarms_for_device(terid) is called.
AdhocCall ==
    /\ out.pc = "idle"
    /\ \E terid \in Terids : out' = [NoAdhocCall EXCEPT !.pc = "try", !.terid = terid]
    /\ UNCHANGED <<kind, now, engineVars, last_sync_time, authVars, devices, alarms, gps,
                   cl>>

\* The body of the method.
AdhocSync ==
    /\ out.pc = "try"
    /\ \E a \in AdhocAnswers, thrown \in Throwers :
         LET c == sync_alarms_for_device(alarms, Session, a, thrown, now)
         IN  /\ \A i \in 1..Len(a.list) : a.list[i].terid = out.terid
             /\ alarms' = c.rows
             /\ auth_key' = c.key
             /\ key_expires_at' = c.expires
             /\ out' = [out EXCEPT !.pc = "done",
                                   !.fetched = a.auth /\ a.ok,
                                   !.found = Len(a.list),
                                   !.failed = Cardinality(a.fails),
                                   !.thrown = thrown,
                                   !.raised = c.raised,
                                   !.result = c.result,
                                   !.rows_before = alarms]
    /\ UNCHANGED <<kind, now, engineVars, last_sync_time, devices, gps, cl>>

\* The caller takes the value.
AdhocReturn ==
    /\ out.pc = "done"
    /\ out' = NoAdhocCall
    /\ UNCHANGED <<kind, now, engineVars, last_sync_time, authVars, devices, alarms, gps,
                   cl>>

AdhocInit ==
    /\ kind = "alarm"
    /\ now = 0
    /\ IdleEngine
    /\ last_sync_time = Never
    /\ auth_key = 0
    /\ key_expires_at = 0
    /\ devices = DeviceRows(Terids)
    /\ alarms = <<>>
    /\ gps = <<>>
    /\ out = NoAdhocCall
    /\ cl = IdleClient

AdhocNext ==
    \/ AdhocCall
    \/ AdhocSync
    \/ AdhocReturn
    \/ Tick
    \/ Expire

AdhocSpec == AdhocInit /\ [][AdhocNext]_vars

(***************************************************************************)
(* stop() against the loop thread in real time: one running scheduler, its *)
(* loop thread in the interval wait, in a sync or in the cooldown sleep,   *)
(* and stop()'s join with its timeout.  The clock counts seconds here.     *)
(***************************************************************************)
ClockStepSeconds == 5
MaxHaltClock == 150

\* The loop thread's position and the end of its wait or sleep; stop()'s position,
\* the end of its join and the value it returned; (history) where the loop thread
\* was when stop() was called.
NoHalt ==
    [loop |-> "wait", wake |-> 0, stop |-> "idle", join_until |-> 0, ret |-> "none",
     at_call |-> "none"]

\* `while self._running and not self._stop_event.is_set():` and what follows it.
HaltTop(h) ==
    IF running /\ ~stop_event
    THEN [h EXCEPT !.loop = "wait", !.wake = now + UpdateInterval * 60]
    ELSE [h EXCEPT !.loop = "exited", !.wake = 0]

\* `if self._stop_event.wait(timeout=...): break`, `if not self._running: break`,
\* else the sync operation is called.
HaltWait ==
    /\ out.loop = "wait"
    /\ stop_event \/ now >= out.wake
    /\ out' = [out EXCEPT !.loop = IF stop_event \/ ~running THEN "exited" ELSE "sync",
                          !.wake = 0]
    /\ UNCHANGED <<kind, now, engineVars, last_sync_time, authVars, devices, alarms, gps,
                   cl>>

\* The sync operation returns; back to the top of the loop.
HaltSyncReturns ==
    /\ out.loop = "sync"
    /\ out' = HaltTop(out)
    /\ next_run_time' = IF running /\ ~stop_event THEN now + UpdateInterval * 60
                        ELSE next_run_time
    /\ UNCHANGED <<kind, now, running, stop_event, scheduler_thread, pc, wake, op, ret,
                   res, svcVars, authVars, storeVars, gps, cl>>

\* Something in the loop's try block raises: `except Exception`, then time.sleep(60).
HaltSyncRaises ==
    /\ out.loop = "sync"
    /\ out' = [out EXCEPT !.loop = "cooldown", !.wake = now + CooldownSeconds]
    /\ UNCHANGED <<kind, now, engineVars, last_sync_time, authVars, devices, alarms, gps,
                   cl>>

\* The sleep is over; back to the top of the loop.
HaltCooldownEnds ==
    /\ out.loop = "cooldown"
    /\ now >= out.wake
    /\ out' = HaltTop(out)
    /\ next_run_time' = IF running /\ ~stop_event THEN now + UpdateInterval * 60
                        ELSE next_run_time
    /\ UNCHANGED <<kind, now, running, stop_event, scheduler_thread, pc, wake, op, ret,
                   res, svcVars, authVars, storeVars, gps, cl>>

\* stop() is called on the running scheduler: `self._running = False`,
\* `self._stop_event.set()`, and `join(timeout=10)` begins.
HaltStopCall ==
    /\ out.stop = "idle"
    /\ running
    /\ running' = FALSE
    /\ stop_event' = TRUE
    /\ out' = [out EXCEPT !.stop = "join", !.join_until = now + JoinTimeoutSeconds,
                          !.at_call = out.loop]
    /\ UNCHANGED <<kind, now, scheduler_thread, next_run_time, pc, wake, op, ret, res,
                   svcVars, authVars, storeVars, gps, cl>>

\* join returns when the thread has ended or the timeout has run out; stop() returns
\* whether the thread is gone.
HaltStopJoin ==
    /\ out.stop = "join"
    /\ out.loop = "exited" \/ now >= out.join_until
    /\ out' = [out EXCEPT !.stop = "done",
                          !.ret = IF out.loop = "exited" THEN "T" ELSE "F"]
    /\ UNCHANGED <<kind, now, engineVars, last_sync_time, authVars, devices, alarms, gps,
                   cl>>

\* Time passes, unless a thread is due: a wait whose event is set, a sleep or a join
\* that has run out.
HaltPass ==
    /\ now < MaxHaltClock
    /\ ~(out.loop = "wait" /\ stop_event)
    /\ ~(out.loop = "cooldown" /\ now >= out.wake)
    /\ ~(out.stop = "join" /\ (out.loop = "exited" \/ now >= out.join_until))
    /\ now' = now + ClockStepSeconds
    /\ UNCHANGED <<extVars, kind, engineVars, last_sync_time, authVars, devices, alarms>>

HaltInit ==
    /\ kind \in {"device", "alarm"}
    /\ now = 0
    /\ running = TRUE
    /\ stop_event = FALSE
    /\ scheduler_thread = Min(Loops)
    /\ next_run_time = UpdateInterval * 60
    /\ pc = [t \in Threads |-> IF t \in Callers THEN "idle" ELSE "unborn"]
    /\ wake = [t \in Loops |-> 0]
    /\ op = [c \in Callers |-> "none"]
    /\ ret = [c \in Callers |-> "none"]
    /\ res = [t \in Threads |-> FALSE]
    /\ sync_lock = FALSE
    /\ sync_in_progress = FALSE
    /\ wr = [w \in Writers |-> IdleWriter]
    /\ last_sync_time = Never
    /\ auth_key = 0
    /\ key_expires_at = 0
    /\ devices = <<>>
    /\ alarms = <<>>
    /\ gps = <<>>
    /\ out = [NoHalt EXCEPT !.wake = UpdateInterval * 60]
    /\ cl = IdleClient

HaltNext ==
    \/ HaltWait
    \/ HaltSyncReturns
    \/ HaltSyncRaises
    \/ HaltCooldownEnds
    \/ HaltStopCall
    \/ HaltStopJoin
    \/ HaltPass

HaltSpec == HaltInit /\ [][HaltNext]_vars

(***************************************************************************)
(* Properties.                                                             *)
(***************************************************************************)
\* The step taken is a step of thread t.
Moved(t) == pc'[t] # pc[t]

OthersStay(t) == \A u \in Threads \ {t} : pc'[u] = pc[u]

\* C1: under any interleaving of scheduled, initial and forced sync() calls, at most
\* one thread is inside the sync body (the region run under the service's lock).
C1_AtMostOneInBody == Cardinality({t \in Threads : pc[t] \in LockHeldPcs}) <= 1

\* C1 witness: a loop thread runs the body while a caller's sync() waits for the lock.
C1_Witness ==
    \E t \in Loops, c \in Callers : pc[t] = "sync_body" /\ pc[c] = "sync_acquire"

\* C2: a sync() call made while another thread is executing a sync on the same
\* instance returns false at once: it does not wait for the lock and runs no cycle.
C2_BusyCallSkips ==
    [][\A t \in Threads :
          (pc[t] = "sync_enter" /\ Moved(t) /\ pc'[t] # "loop_cooldown"
           /\ \E u \in Threads \ {t} : pc[u] \in LockHeldPcs)
          => (pc'[t] \notin SyncPcs /\ res'[t] = FALSE)]_vars

\* C3: an exception raised by the sync operation never ends the loop: it is followed
\* by the cooldown, the cooldown by the top of the loop, and a loop thread exits only
\* when the scheduler was stopped.
C3_LoopSurvivesErrors ==
    [][\A t \in Loops :
          /\ (pc[t] = "sync_enter" /\ Moved(t) /\ pc'[t] \notin SyncPcs)
                => pc'[t] \in {"loop_cooldown", "loop_top"}
          /\ (pc[t] = "loop_cooldown" /\ Moved(t)) => pc'[t] = "loop_top"
          /\ (pc'[t] = "exited" /\ Moved(t)) => (~running \/ stop_event)]_vars

\* C3 witness: a loop thread has caught an exception, slept the cooldown and is about
\* to go around the loop again on a scheduler that is still running.
C3_Witness ==
    \E t \in Loops :
        pc[t] = "loop_cooldown" /\ now >= wake[t] /\ running /\ ~stop_event

\* C4: start() on a running scheduler and stop() on a stopped one return false in one
\* step that changes nothing else: no thread is launched, no sync is invoked, the
\* running flag and the stop signal keep their values.
C4_RejectedCallsChangeNothing ==
    [][\A c \in Callers :
          ((pc[c] = "idle" /\ op'[c] = "start" /\ running)
           \/ (pc[c] = "idle" /\ op'[c] = "stop" /\ ~running))
          => /\ pc'[c] = "done"
             /\ ret'[c] = "F"
             /\ OthersStay(c)
             /\ UNCHANGED <<schedVars, wake, svcVars, authVars, storeVars>>]_vars

\* C4 witness: start() of the alarm scheduler has returned false on a running scheduler.
C4_Witness ==
    \E c \in Callers :
        kind = "alarm" /\ op[c] = "start" /\ pc[c] = "done" /\ ret[c] = "F" /\ running

\* C5: a start() that passes its checks sets the scheduler running, launches the loop
\* thread, then makes exactly one sync() call on the caller's thread, and returns true
\* whatever that call returned.
C5_StartSyncsOnceThenTrue ==
    [][\A c \in Callers :
          /\ (pc[c] = "start_set" /\ Moved(c))
                => (pc'[c] = "start_launch" /\ running' /\ ~stop_event')
          /\ (pc[c] = "start_launch" /\ Moved(c))
                => /\ pc'[c] = "sync_enter"
                   /\ scheduler_thread' \in Loops
                   /\ pc[scheduler_thread'] = "unborn"
                   /\ pc'[scheduler_thread'] = "loop_top"
          /\ (op[c] = "start" /\ pc'[c] = "sync_enter" /\ Moved(c))
                => pc[c] = "start_launch"
          /\ (op[c] = "start" /\ pc'[c] = "done" /\ Moved(c) /\ ret'[c] = "T")
                => pc[c] \in {"sync_enter", "sync_release"}
          /\ (op[c] = "start" /\ pc[c] \in SyncPcs /\ pc'[c] = "done")
                => ret'[c] = "T"]_vars

\* C5 witness: start() has returned true although its initial sync returned false.
C5_Witness ==
    \E c \in Callers :
        op[c] = "start" /\ pc[c] = "done" /\ ret[c] = "T" /\ ~res[c]
        /\ scheduler_thread \in Loops

\* C6: stop() on a running scheduler sets the stop signal; it returns true only if the
\* loop thread has exited, and false leaves that thread running; once stop() has
\* returned true (and until the scheduler is started again) no loop thread of the
\* scheduler invokes the sync operation.
C6_StopThenNoSync ==
    [][/\ \A c \in Callers :
            /\ (pc[c] = "stop_set" /\ Moved(c)) => (stop_event' /\ ~running')
            /\ (pc[c] = "stop_join" /\ Moved(c) /\ ret'[c] = "T")
                  => ~Alive(scheduler_thread)
            /\ (pc[c] = "stop_join" /\ Moved(c) /\ ret'[c] = "F")
                  => (Alive(scheduler_thread) /\ OthersStay(c))
       /\ (\E c \in Callers : op[c] = "stop" /\ pc[c] = "done" /\ ret[c] = "T" /\ ~running)
             => \A t \in Loops : ~(pc[t] = "sync_enter" /\ Moved(t))]_vars

\* C7: force_sync() invokes sync() at once and, from the call to its return, leaves
\* the next-run time, the running flag, the stop signal, the thread handle and every
\* loop thread's pending wait unchanged; it returns what sync() returned.
C7_ForceSyncLeavesSchedule ==
    [][\A c \in Callers :
          /\ (pc[c] = "idle" /\ op'[c] = "force_sync") => pc'[c] = "sync_enter"
          /\ (op'[c] = "force_sync" /\ Moved(c))
                => (UNCHANGED <<schedVars, wake>> /\ OthersStay(c))
          /\ (op[c] = "force_sync" /\ pc'[c] = "done" /\ Moved(c))
                => ret'[c] = BoolStr(res'[c])]_vars

\* C7 witness: a forced sync has run to its end while a loop thread is in its interval
\* wait for the run it had scheduled.
C7_Witness ==
    \E c \in Callers, t \in Loops :
        /\ op[c] = "force_sync" /\ pc[c] = "done" /\ ret[c] = "T"
        /\ pc[t] = "loop_wait" /\ wake[t] = next_run_time /\ now < wake[t]

\* C8: a status query is one read-only step: it starts no sync, sends nothing to the
\* remote API, writes nothing to the store, and leaves the last-sync time, the
\* in-progress flag, the running flag, the next-run time and the auth session unchanged.
C8_StatusIsReadOnly ==
    [][\A c \in Callers :
          (pc[c] = "idle" /\ op'[c] = "get_status")
          => /\ pc'[c] = "done"
             /\ OthersStay(c)
             /\ UNCHANGED <<schedVars, wake, svcVars, authVars, storeVars>>]_vars

\* C8 witness: a status query has returned while a sync is in progress.
C8_Witness ==
    \E c \in Callers, t \in Threads :
        op[c] = "get_status" /\ pc[c] = "done" /\ pc[t] = "sync_body" /\ sync_in_progress

\* The alarm tuple (terid, alarm time, type, content) of a stored row and of a payload.
RowTuple(row) == <<row.terid, row.gps_time, row.alarm_type, row.alarm_content>>
PayloadTuple(a) == <<a.terid, a.gpstime, a.type, a.content>>
RowsHolding(rows, tuple) == {i \in 1..Len(rows) : RowTuple(rows[i]) = tuple}

\* C9: a batch insert of one alarm whose statement does not raise reports inserted=1
\* (duplicates=0, failed=0) when the tuple is not stored yet, as on the first call,
\* and duplicates=1 (inserted=0, failed=0) when it is, as on the second call; either
\* way the store then holds exactly one row for the tuple.
C9_SecondInsertIsDuplicate ==
    [][\A w \in Writers :
          (/\ wr[w].src \in {"cycle", "device"}
           /\ Len(wr[w].list) = 1
           /\ wr'[w].pos = wr[w].pos + 1
           /\ wr'[w].failed = wr[w].failed)
          => LET tuple == PayloadTuple(wr[w].list[1])
                 counts == <<wr'[w].inserted, wr'[w].duplicates, wr'[w].failed>>
             IN  /\ RowsHolding(alarms, tuple) = {} => counts = <<1, 0, 0>>
                 /\ RowsHolding(alarms, tuple) # {} => counts = <<0, 1, 0>>
                 /\ Cardinality(RowsHolding(alarms', tuple)) = 1]_vars

\* C9 witness: two batch inserts of the same alarm have run; the first reported
\* inserted=1, the second duplicates=1, and one row is stored.
C9_Witness ==
    \E w1, w2 \in Writers :
        /\ w1 # w2
        /\ wr[w1].list = wr[w2].list
        /\ Len(wr[w1].list) = 1
        /\ <<wr[w1].inserted, wr[w1].duplicates, wr[w1].failed>> = <<1, 0, 0>>
        /\ <<wr[w2].inserted, wr[w2].duplicates, wr[w2].failed>> = <<0, 1, 0>>
        /\ Len(alarms) = 1

\* C10: whatever alarm sync cycles, single-device syncs and direct inserts have run,
\* in whatever interleaving, no two stored rows hold the same alarm tuple.
C10_OneRowPerTuple ==
    \A i, j \in 1..Len(alarms) : RowTuple(alarms[i]) = RowTuple(alarms[j]) => i = j

\* C10 witness: a sync cycle and a single-device sync have both tried to insert the
\* same tuple over overlapping windows, with different server times; one row is stored.
C10_Witness ==
    \E w1, w2 \in Writers :
        /\ wr[w1].src = "cycle" /\ wr[w2].src = "device"
        /\ wr[w1].pos = 1 /\ wr[w2].pos = 1
        /\ PayloadTuple(wr[w1].list[1]) = PayloadTuple(wr[w2].list[1])
        /\ wr[w1].list[1] # wr[w2].list[1]
        /\ wr[w1].inserted + wr[w2].inserted = 1
        /\ wr[w1].duplicates + wr[w2].duplicates = 1
        /\ Cardinality(RowsHolding(alarms, PayloadTuple(wr[w1].list[1]))) = 1

\* Rows of the devices table stored for a terid.
DevicesHolding(rows, terid) == {i \in 1..Len(rows) : rows[i].terid = terid}

\* C11: an upsert of a device payload that does not raise leaves exactly one row for
\* its terid, carrying the payload's fields and the time of the call: on a terid not
\* stored yet it is counted as inserted, as on the first call; on a stored terid it is
\* counted as updated and adds no row, as on the second call.
C11_UpsertTwiceOneRow ==
    [][\A device \in DevicePayloads :
          (/\ out'.seq # out.seq
           /\ out'.op \in {"upsert_device", "upsert_devices_batch"}
           /\ out'.list = <<device>>
           /\ out'.fails = {})
          => LET held == DevicesHolding(devices, device.terid)
                 after == DevicesHolding(devices', device.terid)
                 counts == <<out'.inserted, out'.updated, out'.failed>>
                 batch == out'.op = "upsert_devices_batch"
             IN  /\ Cardinality(after) = 1
                 /\ \A i \in after :
                       /\ devices'[i].car_license = NormalizeDevice(device).carlicense
                       /\ devices'[i].last_updated = now
                 /\ out'.result
                 /\ held = {} => /\ Len(devices') = Len(devices) + 1
                                 /\ batch => counts = <<1, 0, 0>>
                 /\ held # {} => /\ Len(devices') = Len(devices)
                                 /\ batch => counts = <<0, 1, 0>>]_vars

\* C11 witness: the same payload has been upserted twice, the second time later than
\* the first; the second call was counted as updated and one row is stored, stamped
\* with the time of the second call.
C11_Witness ==
    /\ out.op = "upsert_devices_batch"
    /\ out.again
    /\ <<out.inserted, out.updated, out.failed>> = <<0, 1, 0>>
    /\ Len(devices) = 1
    /\ devices[1].last_updated = now
    /\ now > 0

\* C12: no step of the engine - a device, alarm or GPS sync cycle or a retention
\* cleanup - removes a terid from the devices table: the set of stored devices only
\* grows.
C12_DevicesNeverDeleted ==
    [][\A i \in 1..Len(devices) : HasDevice(devices', devices[i].terid)]_vars

\* C12 witness: a device stored before the retention period passed is still stored
\* after device, alarm and GPS cycles have run and a cleanup has deleted alarm rows.
C12_Witness ==
    /\ out.ran = {"device", "alarm", "gps", "cleanup"}
    /\ out.deleted
    /\ gps # <<>>
    /\ \E i \in 1..Len(devices) : devices[i].last_updated + DaysToKeep * 24 * 60 < now

\* Rows of the gps table stored for a terid.
GpsHolding(rows, terid) == {i \in 1..Len(rows) : rows[i].terid = terid}

\* C13: the gps table never holds two rows for a device; a step that writes a
\* position leaves exactly one row for its device, equal to the position written,
\* and the rows of the other devices as they were; a step that writes nothing leaves
\* the table as it was.  So each stored row is the most recent write for its device.
C13_GpsLatestOnly ==
    [][/\ \A terid \in Terids : Cardinality(GpsHolding(gps', terid)) <= 1
       /\ out'.wseq = out.wseq => gps' = gps
       /\ out'.wseq # out.wseq
            => LET row == out'.last_write[1]
               IN  /\ {gps'[i] : i \in GpsHolding(gps', row.terid)} = {row}
                   /\ \A terid \in Terids \ {row.terid} :
                        {gps'[i] : i \in GpsHolding(gps', terid)}
                            = {gps[i] : i \in GpsHolding(gps, terid)}]_vars

\* C13 witness: a sync has written two different positions for the same device, one
\* after the other; the table holds one row for it, the second position.
C13_Witness ==
    /\ out.pc = "loop"
    /\ out.pos = 2
    /\ out.stored = 2
    /\ out.list[1].terid = out.list[2].terid
    /\ out.list[1] # out.list[2]
    /\ Len(gps) = 1
    /\ gps[1] = out.last_write[1]
    /\ gps[1].latitude = out.list[2].gpslat.val
    /\ gps[1].longitude = out.list[2].gpslng.val

Rejected(point) ==
    /\ point.gpslat.num /\ point.gpslng.num
    /\ \/ point.gpslat.val = 0 /\ point.gpslng.val = 0
       \/ point.gpslat.val < -90 \/ point.gpslat.val > 90
       \/ point.gpslng.val < -180 \/ point.gpslng.val > 180

\* C15: a fetched position with zero/zero or out-of-range coordinates is not stored
\* and not counted as a success, and the loop goes on to the next position: the sync
\* returns only after every position of the response was processed.
C15_BadCoordinatesSkipped ==
    [][/\ (out.pc = "loop" /\ out'.pos = out.pos + 1 /\ Rejected(out.list[out.pos + 1]))
            => /\ gps' = gps
               /\ out'.success_count = out.success_count
               /\ out'.stored = out.stored
               /\ out'.pc = "loop"
               /\ out'.list = out.list
       /\ (out.pc = "loop" /\ out'.pc = "done") => out.pos = Len(out.list)]_vars

\* C15 witness: the first position of a response was zero/zero and was skipped; the
\* second one has been stored and counted.
C15_Witness ==
    /\ out.pc = "loop"
    /\ out.pos = 2
    /\ out.list[1].gpslat = Coord(0) /\ out.list[1].gpslng = Coord(0)
    /\ out.success_count = 1
    /\ out.stored = 1
    /\ \E i \in 1..Len(gps) :
          /\ gps[i].terid = out.list[2].terid
          /\ gps[i].latitude = out.list[2].gpslat.val
          /\ gps[i].longitude = out.list[2].gpslng.val

\* C16: the GPS sync returns true if and only if at least one position of that cycle
\* was stored.
C16_TrueIffStored ==
    out.pc = "done" => (out.result <=> out.stored > 0)

\* C17: a device sync whose fetch gives the no-data signal returns false, one whose
\* fetch gives an empty list returns true, and neither inserts nor updates a device row.
C17_FetchFailureVersusEmpty ==
    [][(out'.seq # out.seq /\ out'.op = "sync_devices")
          => LET nodata == \/ ~IsKeyValid(auth_key, key_expires_at, now) /\ ~out'.auth
                           \/ ~out'.ok
             IN  /\ nodata => (~out'.result /\ devices' = devices)
                 /\ (~nodata /\ out'.list = <<>>) => (out'.result /\ devices' = devices)]_vars

\* C17 witness: on a store that holds a device, a sync whose fetch failed has returned
\* false and left the row as it was stored earlier.
C17_Witness ==
    /\ out.op = "sync_devices"
    /\ ~out.ok
    /\ ~out.result
    /\ Len(devices) = 1
    /\ devices[1].last_updated < now

C19_NoDataOnFailure ==
    cl.pc = "done"
    => /\ cl.ret \in {"None", "list"}
       /\ cl.ret = "list" <=> (cl.sent /\ cl.outcome = "ok200")
       /\ (~cl.sent \/ cl.outcome \in {"app_error", "transport_error", "malformed"})
            => (cl.ret = "None" /\ cl.list = <<>>)

\* C19 witness: a data request that ended in a transport error has returned None.
C19_Witness ==
    /\ cl.pc = "done"
    /\ cl.sent
    /\ cl.outcome = "transport_error"
    /\ cl.ret = "None"

C21_OneGpsSyncInFlight == Cardinality({c \in GpsThreads : out[c].pc = "loop"}) <= 1

\* C22: a stored alarm row never changes: after any step the row stored for a tuple is
\* the row that was stored for it before, whatever other attributes a later insert of
\* the same tuple carries; and a row leaves the table only in a step that inserts
\* nothing and only if it was created more than the retention age ago.
C22_AlarmRowsImmutable ==
    [][\A i \in 1..Len(alarms) :
          LET kept == RowsHolding(alarms', RowTuple(alarms[i]))
          IN  /\ \A j \in kept : alarms'[j] = alarms[i]
              /\ kept = {} => /\ alarms[i].created_at < now - DaysToKeep * 24 * 60
                              /\ wr' = wr
                              /\ \A j \in 1..Len(alarms') : alarms'[j] \in Range(alarms)]_vars

\* C22 witness: an insert of a stored tuple with a different server time has been
\* counted as a duplicate, and the stored row still carries the first server time.
C22_Witness ==
    \E w \in Writers :
        /\ wr[w].pos = 1
        /\ wr[w].duplicates = 1
        /\ \E i \in RowsHolding(alarms, PayloadTuple(wr[w].list[1])) :
              alarms[i].server_time # wr[w].list[1].time

\* C23: a device, alarm or GPS sync call always ends by returning a boolean to its
\* caller, never by an exception; a call inside whose cycle the API client or the
\* store threw returns false, and the device and alarm services are left with the
\* in-progress flag cleared and the lock released.
C23_SyncNeverRaises ==
    out.pc = "done"
    => /\ ~out.raised
       /\ out.result \in BOOLEAN
       /\ out.thrown # "none" => ~out.result
       /\ ~sync_in_progress
       /\ ~sync_lock

\* C23 witness: an alarm sync inside which the store threw has returned false.
C23_Witness ==
    /\ out.pc = "done"
    /\ out.svc = "alarm"
    /\ out.thrown = "store"
    /\ ~out.result
    /\ devices # <<>>

\* C24: whenever a thread is about to read the cached session (it is at the validity
\* test of a fetch operation), the stored token and the stored expiry were written by
\* the same successful authentication.
C24_SessionConsistent ==
    \A t \in ClientThreads :
        (cl[t].pc = "ensure" /\ auth_key # 0) => out.exp_of = auth_key

\* The weaker statement that the session is consistent whenever no authentication is
\* in progress.
SessionConsistentAtRest ==
    (\A t \in ClientThreads : cl[t].pc \notin {"set_key", "set_expiry"})
    => (auth_key # 0 => out.exp_of = auth_key)

\* C25: a stop request does not interrupt a scheduled sync in flight: no step of the
\* stopping caller moves the loop thread, the thread leaves its sync() call only by
\* the call's own return (or exception), never by exiting; back at the loop's
\* condition with the stop still in effect, its next step is to exit, starting no
\* further sync.
C25_StopDoesNotInterruptSync ==
    [][/\ \A c \in Callers :
            (op'[c] = "stop" /\ Moved(c)) => \A t \in Loops : pc'[t] = pc[t]
       /\ \A t \in Loops :
            /\ (pc[t] \in SyncPcs /\ Moved(t))
                  => pc'[t] \in SyncPcs \cup {"loop_top", "loop_cooldown"}
            /\ (pc[t] \in {"sync_body", "sync_finally"} /\ Moved(t))
                  => pc'[t] \in {"sync_finally", "sync_release"}
            /\ (pc[t] = "loop_top" /\ Moved(t) /\ (~running \/ stop_event))
                  => /\ pc'[t] = "exited"
                     /\ UNCHANGED <<svcVars, authVars, storeVars>>]_vars

\* C25 witness: stop() was called while the loop thread was inside its scheduled sync
\* and gave up joining it; the sync has gone on to complete its cycle successfully
\* with the stop still in effect.
C25_Witness ==
    \E c \in Callers :
        /\ op[c] = "stop" /\ pc[c] = "done" /\ ret[c] = "F"
        /\ scheduler_thread \in Loops
        /\ pc[scheduler_thread] = "sync_release"
        /\ res[scheduler_thread]
        /\ ~running
        /\ stop_event

\* C26: a loop thread in its interval wait with the stop signal set can exit at once,
\* whatever is left of the interval, and can do nothing else; a stop() joining a loop
\* thread that is in its interval wait cannot return false.
C26_StopWakesWait ==
    /\ \A t \in Loops :
          (pc[t] = "loop_wait" /\ stop_event)
          => /\ ENABLED (LoopWait(t) /\ pc'[t] = "exited")
             /\ ~ENABLED (LoopWait(t) /\ pc'[t] # "exited")
    /\ \A c \in Callers :
          (pc[c] = "stop_join" /\ scheduler_thread \in Loops
           /\ pc[scheduler_thread] = "loop_wait")
          => ~ENABLED (StopJoin(c) /\ ret'[c] = "F")

\* C26 witness: stop() has set the stop signal and is joining the loop thread, which is
\* in its interval wait with part of the interval still to go.
C26_Witness ==
    \E c \in Callers :
        /\ pc[c] = "stop_join"
        /\ stop_event
        /\ scheduler_thread \in Loops
        /\ pc[scheduler_thread] = "loop_wait"
        /\ now < wake[scheduler_thread]

\* The device identifiers of a sequence of batches, in order.
RECURSIVE Flatten(_)
Flatten(batches) ==
    IF batches = <<>> THEN <<>> ELSE Head(batches) \o Flatten(Tail(batches))

\* The batch fetched by a step of the cycle, if the step fetched one.
FetchedOne == Len(out'.queried) = Len(out.queried) + 1
LastBatch == out'.queried[Len(out'.queried)]
FetchFailed == out'.fetch_failed > out.fetch_failed

\* C27: the batches of a cycle are fetched one per step, each the next stretch of the
\* device list after those already fetched, and the cycle ends only when the whole
\* list has been covered; a step whose fetch fails adds the batch's device count to
\* the failure counter, writes nothing to the alarms table and leaves the loop
\* running.
C27_BatchesInOrder ==
    [][/\ FetchedOne
            => /\ out.pc = "loop"
               /\ LastBatch # <<>>
               /\ Flatten(out'.queried)
                    = SubSeq(out.terids, 1, Len(Flatten(out.queried)) + Len(LastBatch))
               /\ FetchFailed
                    => /\ out'.total_failed = out.total_failed + Len(LastBatch)
                       /\ alarms' = alarms
                       /\ out'.total_inserted = out.total_inserted
                       /\ out'.pc = "loop"
       /\ (out.pc = "loop" /\ out'.pc = "done") => Flatten(out.queried) = out.terids]_vars

\* C27 witness: with batches of two over five devices, one of the first two batches
\* failed to be fetched, and the last batch was fetched after it and its alarm
\* inserted.
C27_Witness ==
    /\ out.pc = "done"
    /\ out.batch_size = 2
    /\ Len(out.terids) = 5
    /\ Len(out.queried) = 3
    /\ out.fetch_failed = 2
    /\ out.total_failed = 2
    /\ out.total_inserted = 1
    /\ Len(alarms) = 1
    /\ alarms[1].terid = 5

\* C28: a cycle over a non-empty device list returns true exactly when failed = 0 or
\* failed is below a tenth of the number of known devices, failed being the device
\* counts of the batches whose fetch failed plus the inserts that raised.
C28_AlarmTenPercent ==
    [][(out.pc = "loop" /\ out'.pc = "done")
         => LET failed == out.fetch_failed + out.insert_failed
            IN  /\ out.total_failed = failed
                /\ out'.result = (failed = 0 \/ failed * 10 < Len(out.terids))]_vars

\* C28 witness: eleven devices, one failed: the cycle has returned true.
C28_Witness ==
    /\ out.pc = "done"
    /\ Len(out.terids) = 11
    /\ out.fetch_failed + out.insert_failed = 1
    /\ out.result

\* C29: the batches a finished cycle has queried are consecutive stretches of the
\* known device identifiers that together make up the list, each device in exactly
\* one batch; none is longer than batch_size and only the last may be shorter.
C29_BatchesPartitionDevices ==
    (out.pc \in {"done", "returned"} /\ out.terids # <<>>)
    => /\ Range(out.terids) = {devices[d].terid : d \in 1..Len(devices)}
       /\ Flatten(out.queried) = out.terids
       /\ \A j, k \in 1..Len(out.queried) :
             j # k => Range(out.queried[j]) \cap Range(out.queried[k]) = {}
       /\ \A k \in 1..Len(out.queried) :
             /\ Len(out.queried[k]) >= 1
             /\ Len(out.queried[k]) <= out.batch_size
             /\ k < Len(out.queried) => Len(out.queried[k]) = out.batch_size

\* C29 witness: eleven devices in batches of three: four batches, the last of two.
C29_Witness ==
    /\ out.pc = "done"
    /\ out.batch_size = 3
    /\ Len(out.terids) = 11
    /\ Len(out.queried) = 4
    /\ Len(out.queried[4]) = 2

\* C30: with lookback > interval, the window of every scheduled alarm cycle starts no
\* later than the window of the cycle before it ended.
C30_WindowsOverlap ==
    (out.lookback > out.interval /\ out.window # NoWindow /\ out.previous # NoWindow)
    => out.window.start <= out.previous.end

\* The same, for a cycle that follows one which took no longer than
\* lookback - interval.
WindowsOverlapWhenSyncIsShort ==
    [][(out.pc = "call" /\ out'.pc = "body" /\ out.window # NoWindow
        /\ (last_sync_time - out.window.end) + out.interval <= out.lookback)
         => out'.window.start <= out.window.end]_vars

\* The hourly condition at its widest: the cycle completes in minute 0 of an hour, or
\* no cleanup has run before, or the last one ran at least an hour ago.
HourlyCondition(t, cleaned) == t % 60 = 0 \/ cleaned = Never \/ t - cleaned >= 60

\* C31: retention cleanup is performed once per hour: a completed alarm sync cycle
\* triggers the cleanup only when the hourly condition holds, not on every
\* completed cycle.
C31_CleanupOncePerHour ==
    [][(out'.cycles = out.cycles + 1 /\ out'.triggered)
        => HourlyCondition(now, out.cleaned_at)]_vars

\* Every completed cycle triggers the cleanup (what the code does).
CleanupOnEveryCycle == out.cleanups = out.cycles

\* A fetch operation returns in this step.
FetchReturns ==
    /\ cl.pc # "done"
    /\ cl'.pc = "done"
    /\ cl'.op \in {"get_devices", "get_alarm_details"}

\* The token the fetch found was valid when the fetch tested it.
FoundValid(call) ==
    /\ call.found_key # 0
    /\ call.checked_at # Never
    /\ call.checked_at < call.found_expires

\* C32: while the cached token is valid (now < issue time + validity window), a fetch
\* operation sends no authentication request and re-uses the cached token;
\* authenticate() followed by such a fetch issues exactly one authentication request
\* and one data request.
C32_ValidTokenReused ==
    [][(FetchReturns /\ FoundValid(cl'))
        => /\ cl'.auths = 0
           /\ cl'.requests = 1
           /\ cl'.carried = cl'.found_key
           /\ auth_key' = cl'.found_key
           /\ key_expires_at' = cl'.found_expires
           /\ (out.previous.op = "authenticate" /\ out.previous.ret = "True")
                => /\ out.previous.auths + cl'.auths = 1
                   /\ out.previous.requests + cl'.requests = 1]_vars

\* C32 witness: authenticate() returned true, then a fetch found the token valid,
\* sent its data request with that token and no login request.
C32_Witness ==
    /\ cl.pc = "done"
    /\ cl.op = "get_devices"
    /\ out.previous.op = "authenticate"
    /\ out.previous.ret = "True"
    /\ out.previous.auths = 1
    /\ cl.auths = 0
    /\ cl.requests = 1
    /\ cl.carried = auth_key
    /\ auth_key > 0
    /\ now < key_expires_at

\* The loop of service s can take its next step (a loop in its wait once the wait
\* has run out, a loop in its sync body when its remote calls answer).
CanProceed(s) ==
    /\ out.svc[s].pc = "top" => ENABLED SysTop(s)
    /\ (out.svc[s].pc = "wait" /\ now >= out.svc[s].wake) => ENABLED SysWait(s)
    /\ out.svc[s].pc = "enter" => ENABLED SysEnter(s)
    /\ out.svc[s].pc = "acquire" => ENABLED SysAcquire(s)
    /\ (out.svc[s].pc = "body" /\ out.svc[s].completed < MaxCompleted)
         => ENABLED SysBody(s)
    /\ out.svc[s].pc = "finally" => ENABLED SysFinally(s)

C34_SingleDeviceResult ==
    out.pc = "done"
    => /\ ~out.raised
       /\ out.thrown # "none" => ~out.result
       /\ out.thrown = "none"
            => /\ ~out.fetched => (~out.result /\ alarms = out.rows_before)
               /\ (out.fetched /\ out.found = 0) => (out.result /\ alarms = out.rows_before)
               /\ (out.fetched /\ out.found > 0) => (out.result <=> out.failed = 0)

\* C34 witness: a call whose fetch returned MaxAdhocLen alarms, one of whose inserts
\* raised (less than 10%), has returned false.
C34_Witness ==
    /\ out.pc = "done"
    /\ out.thrown = "none"
    /\ out.fetched
    /\ out.found = MaxAdhocLen
    /\ out.failed = 1
    /\ ~out.result
    /\ Len(alarms) = 1

\* Loop threads of the scheduler that are alive and will call the sync operation
\* again: they are in the loop, or inside a sync the loop called.
LiveLoops == {t \in Loops : Alive(t)}

\* C35: after any sequence of start() and stop() calls on one scheduler - including a
\* stop() that timed out and returned false followed by a new start() - at most one
\* loop thread of that scheduler is alive and able to invoke the sync operation.
C35_OneLoopThread == Cardinality(LiveLoops) <= 1

\* Two loop threads of one scheduler are both past the loop's running test and on
\* their way into the sync operation, with no start() or stop() in progress.
TwoLoopsAtRest ==
    ~(/\ \A c \in Callers : pc[c] = "idle"
      /\ running
      /\ Cardinality({t \in Loops : pc[t] \in {"loop_wait", "loop_check", "sync_enter"}}) = 2)

\* C36: the in-progress flag of a Device or Alarm sync service is true only while some
\* thread holds the service's sync lock and is executing the sync body (its try block
\* or the finally clause that has yet to clear the flag); on every exit path of sync()
\* the flag is false again by the time the lock is released.
C36_FlagOnlyInsideBody ==
    /\ sync_in_progress
         => /\ sync_lock
            /\ \E t \in Threads : pc[t] \in {"sync_body", "sync_finally"}
    /\ \A t \in Threads : pc[t] = "sync_release" => ~sync_in_progress
    /\ ~sync_lock => ~sync_in_progress

\* C36 witness: a sync that failed is about to release the lock with the flag already
\* cleared, while another thread that passed the flag test waits for the lock.
C36_Witness ==
    \E t \in Threads, u \in Threads :
        /\ pc[t] = "sync_release"
        /\ ~res[t]
        /\ sync_lock
        /\ ~sync_in_progress
        /\ pc[u] = "sync_acquire"

\* authenticate() returns true in this step (called directly or by a fetch).
AuthenticateSucceeds ==
    /\ cl.pc = "auth"
    /\ cl'.pc # "auth"
    /\ cl'.ret = "True" \/ cl'.pc = "request"

\* The client holds a non-empty token that the validity check accepts from now
\* until the validity window has elapsed.
HoldsValidToken ==
    /\ auth_key' # 0
    /\ auth_key' # EmptyKey
    /\ \A t \in now..(now + KeyValidityMinutes - 1) :
         IsKeyValid(auth_key', key_expires_at', t)

\* The data request of a fetch that has just authenticated is sent in this step.
RequestAfterAuth ==
    /\ cl.pc = "request"
    /\ cl'.pc = "done"
    /\ cl.auths > 0

\* C37: whenever authenticate() returns true, the client holds a non-empty token that
\* the validity check reports as valid until the validity window elapses, so a data
\* request that follows a successful authentication always carries a token.
C37_TrueMeansToken ==
    [][/\ AuthenticateSucceeds => HoldsValidToken
       /\ RequestAfterAuth => (cl'.carried # 0 /\ cl'.carried # EmptyKey)]_vars

\* The same, for login answers that carry a key.
TokenWhenKeyPresent ==
    [][/\ (AuthenticateSucceeds /\ cl'.field = "token") => HoldsValidToken
       /\ (RequestAfterAuth /\ cl.field = "token")
            => (cl'.carried # 0 /\ cl'.carried # EmptyKey)]_vars

\* authenticate() fails in this step (called directly or by a fetch).
AuthenticateFails ==
    /\ cl.pc = "auth"
    /\ cl'.pc = "done"
    /\ cl'.ret \in {"False", "None"}

\* The data request of a fetch fails in this step (transport error, another error
\* code, a malformed body).
DataRequestFails ==
    /\ cl.pc = "request"
    /\ cl'.pc = "done"
    /\ cl'.ret = "None"

\* C38: a failed operation never changes the cached auth session: a failed
\* authenticate() leaves the previous token and expiry untouched, and a data fetch
\* that fails neither clears nor refreshes the token, so the next fetch inside the
\* validity window re-uses the same token without re-authenticating.
C38_FailureKeepsSession ==
    [][/\ AuthenticateFails => UNCHANGED authVars
       /\ DataRequestFails => UNCHANGED authVars
       /\ (/\ FetchReturns
           /\ FoundValid(cl')
           /\ out.previous.op \in {"get_devices", "get_alarm_details"}
           /\ out.previous.requests = 1
           /\ out.previous.ret = "None")
            => /\ cl'.auths = 0
               /\ cl'.requests = 1
               /\ cl'.carried = out.previous.carried]_vars

\* C38 witness: a fetch whose data request failed is followed, inside the validity
\* window, by a fetch that sends the same token and no login request.
C38_Witness ==
    /\ cl.pc = "done"
    /\ cl.op = "get_alarm_details"
    /\ out.previous.op = "get_alarm_details"
    /\ out.previous.requests = 1
    /\ out.previous.ret = "None"
    /\ cl.auths = 0
    /\ cl.requests = 1
    /\ cl.carried = out.previous.carried
    /\ cl.carried > 0
    /\ now < key_expires_at

\* C39: the last-sync time of the Alarm sync service changes only in a cycle in which
\* a fetch succeeded and the persistence step was reached; a cycle in which every
\* alarm batch fetch failed leaves the last-sync time unchanged (as does an empty
\* device list).
C39_LastSyncNeedsFetch ==
    [][last_sync_time' # last_sync_time
        => /\ out.terids # <<>>
           /\ out.fetch_failed < Len(out.terids)]_vars

\* The Device sync service: the last-sync time changes only in a sync_devices call
\* whose fetch returned a non-empty list.
DeviceLastSyncNeedsFetch ==
    [][last_sync_time' # last_sync_time
        => /\ out'.op = "sync_devices"
           /\ out'.auth \/ IsKeyValid(auth_key, key_expires_at, now)
           /\ out'.ok
           /\ out'.list # <<>>]_vars

\* An alarm cycle in which every batch fetch failed has set the last-sync time.
AllFetchesFailedStamped ==
    ~(/\ out.pc = "done"
      /\ Len(out.terids) > out.batch_size
      /\ out.fetch_failed = Len(out.terids)
      /\ last_sync_time = now)

\* stop() returns in this step.
StopReturns == out.stop = "join" /\ out'.stop = "done"

\* C40: stop() on a running scheduler returns true whenever the loop thread is not
\* executing a sync at the time of the call, whether it is in the interval wait or in
\* the post-exception cooldown.
C40_IdleStopReturnsTrue ==
    [][(StopReturns /\ out.at_call \in {"wait", "cooldown"}) => out'.ret = "T"]_vars

\* The same for the interval wait alone, and for a cooldown with less of the sleep
\* left than the join waits.
StopReturnsTrueFromWait ==
    [][(/\ StopReturns
        /\ \/ out.at_call = "wait"
           \/ out.at_call = "cooldown" /\ out.wake < out.join_until)
        => out'.ret = "T"]_vars

====
